---- MODULE Spec2Model ----
(***************************************************************************)
(* The andromeda ingestion pipeline: the durable queue consumer, the       *)
(* module writer, the analyzer stage and the file writer, with the         *)
(* specifier ledger and the graph they share.                              *)
(*                                                                         *)
(* Strings are sequences of tokens, so that prefixing ("_:" ++ s), the     *)
(* prefix test strings.HasPrefix(s, "https://") and the empty string ""    *)
(* (the empty sequence) are computed and not assumed.                      *)
(***************************************************************************)
EXTENDS Integers, Sequences, FiniteSets, TLC

\* ------------------------------------------------------------------ bounds
\* number of distinct file specifiers the analyzer can report
NumSpecifiers == 2
\* longest deps list of a FileEntry
MaxDeps == 1
\* number of messages the durable queue holds (at start, or put by discovery)
MaxMsgs == 1
\* longest directory listing of a module version
MaxFiles == 1
\* how many times one message is received (visibility timeout expiries + 1)
MaxDeliveries == 2
\* injected failures of external calls per execution
MaxFaults == 1
\* process runs (restarts + 1)
MaxRuns == 2
\* FileInfos handed directly to the writers in SpecWriters
MaxFeeds == 2

\* ------------------------------------------------------------------ strings
EmptyString == << >>

HasPrefix(s, prefix) == Len(s) >= Len(prefix) /\ SubSeq(s, 1, Len(prefix)) = prefix

SpecifierNames == {"A", "B", "C", "D"}

SpecifierName(i) == CASE i = 1 -> "A" [] i = 2 -> "B" [] i = 3 -> "C" [] OTHER -> "D"

\* an absolute URL of a source file
Specifier(i) == <<"https://", SpecifierName(i)>>

Specifiers == {Specifier(i) : i \in 1..NumSpecifiers}

\* an absolute URL of a source file served over plain http, which the
\* analyzer resolves and reports like any other import
PlainSpecifier == <<"http://", SpecifierName(NumSpecifiers + 1)>>

AllSpecifiers == Specifiers \cup {PlainSpecifier}

\* fmt.Sprintf("_:%s", d)
BlankUid(s) == <<"_:">> \o s

IsBlank(uid) == HasPrefix(uid, <<"_:">>)

\* the identity the graph assigns to its n-th new node
Uid(n) == <<"0x", n>>

\* the name the graph gives to an object that came without uid
AnonKey(n) == <<"dg.", n>>

\* ------------------------------------------------------------------ data
EmptyMap == [x \in {} |-> x]

DepsLists == UNION {[1..n -> Specifiers] : n \in 0..MaxDeps}

\* deno.FileEntry (the size is never read by the pipeline)
FileEntries == [Deps : DepsLists]

\* deno.DenoInfo as the analyzer prints it for one target whose files are all
\* served over https: a non-empty Files map
SecureFileInfos == {[Files |-> f] : f \in UNION {[K -> FileEntries] : K \in (SUBSET Specifiers) \ {{}}}}

\* deno.DenoInfo of a target that is, or that imports, a file served over
\* plain http
PlainFileInfos ==
    {[Files |-> (PlainSpecifier :> [Deps |-> << >>])],
     [Files |-> (Specifier(1) :> [Deps |-> <<PlainSpecifier>>])]}

FileInfos == SecureFileInfos \cup PlainFileInfos

\* DenoInfo{}: the zero value, with a nil Files map
EmptyInfo == [Files |-> EmptyMap]

\* number of versions a module can have
NumVersions == 1

VersionName(i) == IF i = 1 THEN "1.0.0" ELSE "1.1.0"

VersionNames == {VersionName(i) : i \in 1..NumVersions}

\* A path is the sequence of its elements, an element the sequence of its
\* dot-separated parts: /sub/README.md is <<<<"sub">>, <<"README", "md">>>>.
\* filepath.Base: the last element of the path
Base(path) == path[Len(path)]

\* filepath.Ext: the suffix from the final dot of the last element, or ""
Ext(path) ==
    LET last == Base(path)
    IN  IF Len(last) >= 2 THEN <<".", last[Len(last)]>> ELSE EmptyString

\* the extensions of source files
SourceExts == {<<".", "js">>, <<".", "ts">>, <<".", "jsx">>, <<".", "tsx">>}

\* dir = append(dir[:i], dir[i+1:]...)
RemoveAt(dir, i) == SubSeq(dir, 1, i - 1) \o SubSeq(dir, i + 1, Len(dir))

\* the loop of stripUselessEntries from index i on, with i kept after a
\* removal and advanced after a kept entry
RECURSIVE stripFrom(_, _)
stripFrom(dir, i) ==
    IF i > Len(dir) THEN dir
    ELSE IF dir[i].Type = "dir" THEN stripFrom(RemoveAt(dir, i), i)
    ELSE IF Ext(dir[i].Path) \notin SourceExts /\ Base(dir[i].Path) # <<"README", "md">>
         THEN stripFrom(RemoveAt(dir, i), i)
         ELSE stripFrom(dir, i + 1)

\* the loop with the index advanced after a removal as well
RECURSIVE stripSkipping(_, _)
stripSkipping(dir, i) ==
    IF i > Len(dir) THEN dir
    ELSE IF dir[i].Type = "dir" THEN stripSkipping(RemoveAt(dir, i), i + 1)
    ELSE IF Ext(dir[i].Path) \notin SourceExts /\ Base(dir[i].Path) # <<"README", "md">>
         THEN stripSkipping(RemoveAt(dir, i), i + 1)
         ELSE stripSkipping(dir, i + 1)

stripUselessEntriesSkipping(dir) == stripSkipping(dir, 1)

stripUselessEntries(dir) == stripFrom(dir, 1)

\* longest directory listing given to the strip filter on its own
MaxListing == 3

\* paths of a registry's directory listings
RawPaths ==
    {<<<<"mod", "ts">>>>, <<<<"README", "md">>>>, <<<<"foo", "md">>>>, <<<<"sub">>>>,
     <<<<"sub">>, <<"deep">>, <<"view", "tsx">>>>, <<<<"a", "ts", "yml">>>>}

\* directoryListing as meta.json has it, files and directories
RawEntries == [Path : RawPaths, Type : {"file", "dir"}]

RawListings == UNION {[1..n -> RawEntries] : n \in 0..MaxListing}

\* directoryListing entries that the strip filter keeps
Entries == {[Path |-> <<<<"mod", "ts">>>>, Type |-> "file"]}

Listings == UNION {[1..n -> Entries] : n \in 0..MaxFiles}

ModuleNames == {<<"std">>, <<"foo">>}

\* deno.Module: a work unit of the queue
Modules == {[Name |-> n, Versions |-> v] :
                n \in ModuleNames, v \in UNION {[K -> Listings] : K \in SUBSET VersionNames}}

\* Module{}: the zero value
ZeroModule == [Name |-> << >>, Versions |-> EmptyMap]

\* json.Marshal(m): the object with the keys Name and Versions, every entry
\* of a listing under the keys of its json tags
Marshal(mod) ==
    <<"object", mod.Name,
      [v \in DOMAIN mod.Versions |->
          [i \in DOMAIN mod.Versions[v] |->
              [path |-> mod.Versions[v][i].Path, type |-> mod.Versions[v][i].Type]]]>>

\* a message body that is not JSON
Garbage == <<"invalid">>

\* var mod Module; err := json.Unmarshal(body, &mod): the decoded Module, or
\* the error with mod left at its zero value
Unmarshal(body) ==
    IF body[1] = "object"
    THEN [mod |-> [Name |-> body[2],
                   Versions |-> [v \in DOMAIN body[3] |->
                                    [i \in DOMAIN body[3][v] |->
                                        [Path |-> body[3][v][i].path, Type |-> body[3][v][i].type]]]],
          err |-> FALSE]
    ELSE [mod |-> ZeroModule, err |-> TRUE]

\* the orders in which a range over a map can visit its keys
Orders(S) == {o \in [1..Cardinality(S) -> S] : \A i, j \in 1..Cardinality(S) : o[i] = o[j] => i = j}

\* the (version, file) pairs of a module, in one order of its versions
RECURSIVE Pairs(_, _)
Pairs(order, Versions) ==
    IF order = << >> THEN << >>
    ELSE [i \in 1..Len(Versions[Head(order)]) |-> <<Head(order), Versions[Head(order)][i]>>]
             \o Pairs(Tail(order), Versions)

\* a URL under /x/ whatever the module's name
TargetURLUnderX(name, v, file) ==
    <<"https://", "deno.land", "/", "x/">> \o name \o <<"@", v, file.Path>>

\* the URL whose String() IterateModuleInfo passes to ExecInfo
TargetURL(name, v, file) ==
    IF name = <<"std">>
    THEN <<"https://", "deno.land", "/">> \o name \o <<"@", v, file.Path>>
    ELSE <<"https://", "deno.land", "/", "x/">> \o name \o <<"@", v, file.Path>>

\* ------------------------------------------------------------------ ledger
\* Item{}: what GetEntry returns for a specifier that has no item
EmptyItem == [Specifier |-> EmptyString, Uid |-> EmptyString]

GetEntry(table, specifier) ==
    IF specifier \in DOMAIN table
    THEN [Specifier |-> specifier, Uid |-> table[specifier]]
    ELSE EmptyItem

\* PutItem without the condition expression: the stored item is replaced
PutEntryOverwrite(table, item) ==
    [k \in DOMAIN table \cup {item.Specifier} |->
        IF k = item.Specifier THEN item.Uid ELSE table[k]]

\* PutItem with attribute_not_exists(specifier); the conditional failure is
\* swallowed and reported as success
PutEntry(table, item) ==
    IF item.Specifier \in DOMAIN table
    THEN table
    ELSE table @@ (item.Specifier :> item.Uid)

\* merge(maps...): the first map that has a key wins
merge(a, b) == a @@ b

\* ------------------------------------------------------------------ mutateFile
\* File{}: every field empty, marshalled as {}
ZeroFile == [Uid |-> EmptyString, Specifier |-> EmptyString]

\* the uid given to a specifier: the ledger's, or a blank one
SpecifierUid(table, d) ==
    LET item == GetEntry(table, d)
    IN  IF item.Uid # EmptyString THEN item.Uid ELSE BlankUid(d)

\* deps := make([]File, len(entry.Deps)); then one append per dependency
mutateFileDeps(table, Deps) ==
    [i \in 1..Len(Deps) |-> ZeroFile]
        \o [i \in 1..Len(Deps) |-> [Uid |-> SpecifierUid(table, Deps[i]), Specifier |-> EmptyString]]

\* the File that mutateFile marshals into the mutation
mutateFile(table, specifier, entry) ==
    [Uid       |-> SpecifierUid(table, specifier),
     Specifier |-> specifier,
     DependsOn |-> mutateFileDeps(table, entry.Deps)]

\* ------------------------------------------------------------------ graph backend
\* The uid strings of a request, the target's first.
RequestUids(file) == <<file.Uid>> \o [i \in 1..Len(file.DependsOn) |-> file.DependsOn[i].Uid]

\* Resolution of the uids of one request: every distinct blank name and every
\* object without uid gets a new identity; acc.uids is the blank-name -> uid
\* map of the response, acc.res the resolved uid of each position.
RECURSIVE AssignUids(_, _, _)
AssignUids(refs, i, acc) ==
    IF i > Len(refs) THEN acc
    ELSE LET u == refs[i]
             fresh == Uid(acc.next + 1)
         IN  IF u = EmptyString
             THEN AssignUids(refs, i + 1,
                     [uids |-> acc.uids @@ (AnonKey(acc.next + 1) :> fresh),
                      res  |-> Append(acc.res, fresh),
                      next |-> acc.next + 1])
             ELSE IF IsBlank(u) /\ Tail(u) \notin DOMAIN acc.uids
             THEN AssignUids(refs, i + 1,
                     [uids |-> acc.uids @@ (Tail(u) :> fresh),
                      res  |-> Append(acc.res, fresh),
                      next |-> acc.next + 1])
             ELSE AssignUids(refs, i + 1,
                     [uids |-> acc.uids,
                      res  |-> Append(acc.res, IF IsBlank(u) THEN acc.uids[Tail(u)] ELSE u),
                      next |-> acc.next])

\* txn.Mutate of one File: the response's Uids, the pending node and edges
Mutate(file, next) ==
    LET a == AssignUids(RequestUids(file), 1, [uids |-> EmptyMap, res |-> << >>, next |-> next])
    IN  [Uids  |-> a.uids,
         node  |-> [uid |-> a.res[1], specifier |-> file.Specifier],
         edges |-> {<<a.res[1], a.res[j]>> : j \in 2..Len(a.res)},
         next  |-> a.next]

\* client.NewTxn()
NewTxn == [finished |-> FALSE, mutated |-> FALSE, nodes |-> {}, edges |-> {}, minted |-> {}]

\* ------------------------------------------------------------------ state
Writers == {1, 2}

\* the InsertFiles goroutine of the process that main starts
PipelineWriter == 1

VARIABLES
    msgs,        \* durable queue: message id -> the Module that json.Unmarshal
                 \* makes of the message's body
    bodies,      \* durable queue: message id -> body of the message
    sqs,         \* durable queue: message id -> "absent" (not sent yet) | "visible" |
                 \* "inflight" | "deleted"
    deliveries,  \* message id -> number of times it was received
    cancelled,   \* the root context is cancelled
    procState,   \* "running" | "fatal" (log.Fatal) | "exited" (os.Exit(0))
    run,         \* number of the current process run
    poll,        \* the SQSQueue poller goroutine
    cm,          \* the IterateModules goroutine
    im,          \* the InsertModules goroutine
    an,          \* the IterateModuleInfo goroutine
    wr,          \* the InsertFiles goroutines, one per writer (mut: the last mutation
                 \* of the open transaction, with the FileEntry it was made for)
    closed,      \* the channels that have been closed
    ledger,      \* DynamoDB table: specifier -> uid
    nextUid,     \* number of identities the graph has assigned
    fileNodes,   \* committed nodes that carry a specifier: [uid, specifier]
    edges,       \* committed depends_on edges: <<from uid, to uid>>
    moduleNodes, \* committed Module nodes: [uid, name]
    faults,      \* failures of external calls so far
    feeds,       \* FileInfos handed to the writers directly
    emitted,     \* history: message id -> ids of the FileInfos emitted for it
    infoSeq,     \* history: number of FileInfos emitted
    committed,   \* history: ids of the FileInfos whose Commit returned nil
    commitLog,   \* history: transactions that took effect in the graph
    abortedUids, \* history: identities assigned in transactions that did not commit
    dir,         \* the listing given to stripUselessEntries
    stripped,    \* what stripUselessEntries returned for dir, once it has run
    now,         \* the clock, in ticks
    mutHolder,   \* the caller that holds c.mut, or 0
    last,        \* c.last, in ticks
    req,         \* caller of DoRequest -> where it is in DoRequest
    starts,      \* history: the requests let through, [caller, at] in order
    wq,          \* the WatchQueue goroutine
    xdone,       \* x.done: 0 (nil) or the number of the channel it holds
    crawl,       \* the goroutine of Crawl (made: channels made for x.done so far)
    workers,     \* the goroutines Crawl starts, one per module name, in order
    putLog,      \* history: the modules given to Queue.Put, with the responses
                 \* they were built from and whether the context was cancelled
    ex,          \* one call of deno.ExecInfo (atStart, atDecode: whether the context
                 \* was cancelled when the subprocess was started, when Decode returned)
    mg,          \* mergeErrors: its input channels, its goroutines and what came
                 \* out of the merged channel
    cq           \* a ChanQueue: the capacity and the buffer of q.mods, and the
                 \* history of the modules put and got, in order

queueVars == <<msgs, bodies, sqs, deliveries>>
procVars  == <<cancelled, procState, run>>
stageVars == <<poll, cm, im, an, closed>>
storeVars == <<ledger, nextUid, fileNodes, edges, moduleNodes>>
histVars  == <<emitted, infoSeq, committed, commitLog, abortedUids>>
pipeVars == <<queueVars, procVars, stageVars, wr, storeVars, faults, feeds, histVars>>
stripVars == <<dir, stripped>>
throttleVars == <<now, mutHolder, last, req, starts>>
crawlVars == <<wq, xdone, crawl, workers, putLog>>
auxVars == <<stripVars, throttleVars, crawlVars, ex, mg, cq>>
vars == <<pipeVars, auxVars>>

\* no mutation made yet in the transaction
NoMutation == [specifier |-> EmptyString, entry |-> [Deps |-> << >>], file |-> ZeroFile]

\* an InsertFiles goroutine blocked on its input channel
IdleWriter ==
    [pc |-> "recv", info |-> EmptyInfo, id |-> 0, todo |-> {}, txn |-> NewTxn,
     uids |-> EmptyMap, keys |-> {}, mut |-> NoMutation]

Running == procState = "running"

\* every key of the response, whatever its prefix
AnyKeys(uids) == DOMAIN uids

\* strings.HasPrefix(specifier, "https://") over the keys of the response
HttpsKeys(uids) == {k \in DOMAIN uids : HasPrefix(k, <<"https://">>)}

\* where the loop over mod.Files goes next: its next entry, or the Commit
NextLoopPc(todo) == IF todo = {} THEN "commit" ELSE "loop"

\* ------------------------------------------------------------------ InsertFiles
\* for mod := range mods: trxCounter, NewTxn
InsertFiles_Begin(w, info, id) ==
    wr' = [wr EXCEPT ![w] = [pc |-> NextLoopPc(DOMAIN info.Files), info |-> info, id |-> id,
                             todo |-> DOMAIN info.Files, txn |-> NewTxn,
                             uids |-> EmptyMap, keys |-> {}, mut |-> NoMutation]]

\* select on ctx.Done() at the top of the loop over mod.Files: break inner
InsertFiles_Cancelled(w) ==
    /\ Running /\ wr[w].pc = "loop" /\ cancelled
    /\ wr' = [wr EXCEPT ![w].pc = "commit"]
    /\ UNCHANGED <<auxVars, queueVars, procVars, stageVars, storeVars, faults, feeds, histVars>>

\* the outcome of txn.Mutate on a transaction: ErrFinished once the
\* transaction was discarded, else the response
TxnMutate(txn, file, next) ==
    IF txn.finished
    THEN [ok |-> FALSE, Uids |-> EmptyMap, txn |-> txn, next |-> next]
    ELSE LET r == Mutate(file, next)
         IN  [ok |-> TRUE, Uids |-> r.Uids, next |-> r.next,
              txn |-> [finished |-> FALSE, mutated |-> TRUE,
                       nodes  |-> txn.nodes \cup {r.node},
                       edges  |-> txn.edges \cup r.edges,
                       minted |-> txn.minted \cup {r.Uids[k] : k \in DOMAIN r.Uids}]]

\* one iteration of the loop over mod.Files: the ledger lookups and the
\* mutation of mutateFile; the response's uids are then put one by one
InsertFiles_mutateFile(w, k) ==
    /\ Running /\ wr[w].pc = "loop" /\ ~cancelled
    /\ k \in wr[w].todo
    /\ LET entry == wr[w].info.Files[k]
           file  == mutateFile(ledger, k, entry)
           r     == TxnMutate(wr[w].txn, file, nextUid)
           todo  == wr[w].todo \ {k}
       IN  /\ wr' = [wr EXCEPT ![w].txn = r.txn, ![w].uids = r.Uids, ![w].todo = todo,
                               ![w].mut = [specifier |-> k, entry |-> entry, file |-> file],
                               ![w].keys = IF r.ok THEN @ \cup {k} ELSE @,
                               ![w].pc = IF HttpsKeys(r.Uids) # {} THEN "put" ELSE NextLoopPc(todo)]
           /\ nextUid' = r.next
    /\ UNCHANGED <<auxVars, queueVars, procVars, stageVars, ledger, fileNodes, edges, moduleNodes,
                   faults, feeds, emitted, infoSeq, committed, commitLog, abortedUids>>

\* txn.Mutate fails: dgo discards the transaction, mutateFile logs the error
\* and returns an empty map with a nil error
InsertFiles_mutateFileFails(w, k) ==
    /\ Running /\ wr[w].pc = "loop" /\ ~cancelled
    /\ k \in wr[w].todo
    /\ ~wr[w].txn.finished
    /\ faults < MaxFaults
    /\ faults' = faults + 1
    /\ wr' = [wr EXCEPT ![w].txn = [finished |-> TRUE, mutated |-> TRUE, nodes |-> {},
                                    edges |-> {}, minted |-> {}],
                        ![w].uids = EmptyMap, ![w].todo = @ \ {k},
                        ![w].pc = NextLoopPc(wr[w].todo \ {k})]
    /\ abortedUids' = abortedUids \cup wr[w].txn.minted
    /\ UNCHANGED <<auxVars, queueVars, procVars, stageVars, storeVars, feeds,
                   emitted, infoSeq, committed, commitLog>>

\* GetEntry fails inside mutateFile: log.Fatalf
InsertFiles_GetEntryFails(w) ==
    /\ Running /\ wr[w].pc = "loop" /\ ~cancelled
    /\ faults < MaxFaults
    /\ faults' = faults + 1
    /\ procState' = "fatal"
    /\ UNCHANGED <<auxVars, queueVars, cancelled, run, stageVars, wr, storeVars, feeds, histVars>>

\* for specifier, uid := range uids: PutEntry of one https:// key
InsertFiles_PutEntry(w, k) ==
    /\ Running /\ wr[w].pc = "put"
    /\ k \in HttpsKeys(wr[w].uids)
    /\ ledger' = PutEntry(ledger, [Specifier |-> k, Uid |-> wr[w].uids[k]])
    /\ LET rest == [x \in DOMAIN wr[w].uids \ {k} |-> wr[w].uids[x]]
       IN  wr' = [wr EXCEPT ![w].uids = rest,
                            ![w].pc = IF HttpsKeys(rest) # {} THEN "put" ELSE NextLoopPc(wr[w].todo)]
    /\ UNCHANGED <<auxVars, queueVars, procVars, stageVars, nextUid, fileNodes, edges, moduleNodes,
                   faults, feeds, histVars>>

\* PutEntry returns an error other than the conditional failure: log.Fatal
InsertFiles_PutEntryFails(w) ==
    /\ Running /\ wr[w].pc = "put"
    /\ faults < MaxFaults
    /\ faults' = faults + 1
    /\ procState' = "fatal"
    /\ UNCHANGED <<auxVars, queueVars, cancelled, run, stageVars, wr, storeVars, feeds, histVars>>

\* what a transaction that takes effect adds to the graph
Apply(w) ==
    /\ fileNodes' = fileNodes \cup wr[w].txn.nodes
    /\ edges' = edges \cup wr[w].txn.edges
    /\ commitLog' = IF wr[w].txn.mutated
                    THEN commitLog \cup {[files |-> DOMAIN wr[w].info.Files, keys |-> wr[w].keys,
                                        deps |-> UNION {{wr[w].info.Files[k].Deps[i] :
                                                            i \in DOMAIN wr[w].info.Files[k].Deps} :
                                                        k \in wr[w].keys}]}
                    ELSE commitLog

\* txn.Commit returns nil: the transaction takes effect (a transaction without
\* mutation commits without a request)
InsertFiles_Commit(w) ==
    /\ Running /\ wr[w].pc = "commit"
    /\ ~wr[w].txn.finished
    /\ wr[w].txn.mutated => ~cancelled
    /\ Apply(w)
    /\ committed' = committed \cup {wr[w].id}
    /\ wr' = [wr EXCEPT ![w] = IdleWriter]
    /\ UNCHANGED <<auxVars, queueVars, procVars, stageVars, ledger, nextUid, moduleNodes, faults, feeds,
                   emitted, infoSeq, abortedUids>>

\* txn.Commit returns an error (ErrFinished after a failed mutation, or the
\* request fails): log, discard, continue
InsertFiles_CommitFails(w) ==
    /\ Running /\ wr[w].pc = "commit"
    /\ wr[w].txn.finished \/ wr[w].txn.mutated
    /\ IF wr[w].txn.finished \/ cancelled
       THEN faults' = faults
       ELSE faults < MaxFaults /\ faults' = faults + 1
    /\ abortedUids' = abortedUids \cup wr[w].txn.minted
    /\ wr' = [wr EXCEPT ![w] = IdleWriter]
    /\ UNCHANGED <<auxVars, queueVars, procVars, stageVars, storeVars, feeds,
                   emitted, infoSeq, committed, commitLog>>

\* txn.Commit is called with the cancelled context on a transaction that has
\* mutations: the call returns an error, and the request, which was sent,
\* takes effect
InsertFiles_CommitCancelled(w) ==
    /\ Running /\ wr[w].pc = "commit"
    /\ ~wr[w].txn.finished /\ wr[w].txn.mutated /\ cancelled
    /\ Apply(w)
    /\ wr' = [wr EXCEPT ![w] = IdleWriter]
    /\ UNCHANGED <<auxVars, queueVars, procVars, stageVars, ledger, nextUid, moduleNodes, faults, feeds,
                   emitted, infoSeq, committed, abortedUids>>

\* a FileInfo reaches a writer from its own upstream stages
InsertFiles_Feed(w, info) ==
    /\ Running /\ wr[w].pc = "recv"
    /\ feeds < MaxFeeds
    /\ feeds' = feeds + 1
    /\ InsertFiles_Begin(w, info, 0)
    /\ UNCHANGED <<auxVars, queueVars, procVars, stageVars, storeVars, faults, histVars>>

\* ------------------------------------------------------------------ durable queue
MsgIds == 1..MaxMsgs

\* (err: whether json.Unmarshal of the body in hand returned an error)
IdlePoller == [pc |-> "receive", msg |-> 0, err |-> FALSE]

\* the poller goroutine of NewSQSQueue: ReceiveMessage hides the message for
\* the visibility timeout; the error of json.Unmarshal is logged, and mod
\* (msgs[m], the zero Module after an error) goes to q.buf <- mod either way
SQSQueue_ReceiveMessage(m) ==
    /\ Running /\ poll.pc = "receive"
    /\ sqs[m] = "visible"
    /\ deliveries[m] < MaxDeliveries
    /\ sqs' = [sqs EXCEPT ![m] = "inflight"]
    /\ deliveries' = [deliveries EXCEPT ![m] = @ + 1]
    /\ poll' = [pc |-> "send", msg |-> m, err |-> Unmarshal(bodies[m]).err]
    /\ UNCHANGED <<auxVars, msgs, bodies, procVars, cm, im, an, closed, wr, storeVars, faults, feeds, histVars>>

\* the visibility timeout of a received message expires before it is deleted
SQSQueue_VisibilityTimeout(m) ==
    /\ sqs[m] = "inflight"
    /\ deliveries[m] < MaxDeliveries
    /\ sqs' = [sqs EXCEPT ![m] = "visible"]
    /\ UNCHANGED <<auxVars, msgs, bodies, deliveries, procVars, stageVars, wr, storeVars, faults, feeds, histVars>>

\* DeleteMessage with the receipt of the module's message
SQSQueue_Delete(queue, m) == [queue EXCEPT ![m] = "deleted"]

\* ------------------------------------------------------------------ IterateModules
IdleConsumer == [pc |-> "check", msg |-> 0]

\* the select at the top of the loop: on cancellation close(out), close(errs), return
IterateModules_Select ==
    /\ Running /\ cm.pc = "check"
    /\ cm' = [cm EXCEPT !.pc = IF cancelled THEN "returned" ELSE "get"]
    /\ closed' = IF cancelled THEN closed \cup {"toInsert", "errs"} ELSE closed
    /\ UNCHANGED <<auxVars, queueVars, procVars, poll, im, an, wr, storeVars, faults, feeds, histVars>>

\* x.Queue.Get(): <-s.buf meets the poller's q.buf <- mod
IterateModules_Get ==
    /\ Running /\ cm.pc = "get" /\ poll.pc = "send"
    /\ cm' = [pc |-> "send", msg |-> poll.msg]
    /\ poll' = IdlePoller
    /\ UNCHANGED <<auxVars, queueVars, procVars, im, an, closed, wr, storeVars, faults, feeds, histVars>>

\* ------------------------------------------------------------------ InsertModules
IdleInsertModules == [pc |-> "recv", msg |-> 0, all |-> EmptyMap, uid |-> EmptyString, resp |-> EmptyMap]

\* a blank uid for every write of the module
ModuleUidBlank(all, name) == BlankUid(name)

\* the uid of the Module node: the one remembered in all, or a blank one
ModuleUid(all, name) == IF name \in DOMAIN all THEN all[name] ELSE BlankUid(name)

\* for mod := range mods meets out <- mod of IterateModules; then the select
\* on ctx.Done(), which returns without closing out
InsertModules_Recv ==
    /\ Running /\ im.pc = "recv" /\ cm.pc = "send"
    /\ cm' = IdleConsumer
    /\ im' = IF cancelled
             THEN [im EXCEPT !.pc = "returned"]
             ELSE [im EXCEPT !.pc = "mutate", !.msg = cm.msg,
                             !.uid = ModuleUid(im.all, msgs[cm.msg].Name)]
    /\ UNCHANGED <<auxVars, queueVars, procVars, poll, an, closed, wr, storeVars, faults, feeds, histVars>>

\* the range over mods ends because mods is closed: close(out)
InsertModules_Closed ==
    /\ Running /\ im.pc = "recv"
    /\ "toInsert" \in closed
    /\ im' = [im EXCEPT !.pc = "returned"]
    /\ closed' = closed \cup {"inserted"}
    /\ UNCHANGED <<auxVars, queueVars, procVars, poll, cm, an, wr, storeVars, faults, feeds, histVars>>

\* txn.Mutate of the Module node succeeds
InsertModules_Mutate ==
    /\ Running /\ im.pc = "mutate" /\ ~cancelled
    /\ LET a == AssignUids(<<im.uid>>, 1, [uids |-> EmptyMap, res |-> << >>, next |-> nextUid])
       IN  /\ im' = [im EXCEPT !.pc = "commit", !.uid = a.res[1], !.resp = a.uids]
           /\ nextUid' = a.next
    /\ UNCHANGED <<auxVars, queueVars, procVars, poll, cm, an, closed, wr, ledger, fileNodes, edges,
                   moduleNodes, faults, feeds, histVars>>

\* txn.Mutate fails (also under the cancelled context): discard, continue
InsertModules_MutateFails ==
    /\ Running /\ im.pc = "mutate"
    /\ IF cancelled THEN faults' = faults ELSE faults < MaxFaults /\ faults' = faults + 1
    /\ im' = [im EXCEPT !.pc = "recv", !.msg = 0, !.uid = EmptyString]
    /\ UNCHANGED <<auxVars, queueVars, procVars, poll, cm, an, closed, wr, storeVars, feeds, histVars>>

\* txn.Commit succeeds: all = merge(all, resp.Uids), then out <- mod is next
InsertModules_Commit ==
    /\ Running /\ im.pc = "commit" /\ ~cancelled
    /\ moduleNodes' = moduleNodes \cup {[uid |-> im.uid, name |-> msgs[im.msg].Name]}
    /\ im' = [im EXCEPT !.pc = "send", !.all = merge(im.all, im.resp), !.resp = EmptyMap]
    /\ UNCHANGED <<auxVars, queueVars, procVars, poll, cm, an, closed, wr, ledger, nextUid, fileNodes,
                   edges, faults, feeds, histVars>>

\* txn.Commit fails (also under the cancelled context, where the request may
\* still take effect): log.Fatalf
InsertModules_CommitFails ==
    /\ Running /\ im.pc = "commit"
    /\ IF cancelled THEN faults' = faults ELSE faults < MaxFaults /\ faults' = faults + 1
    /\ \E applied \in IF cancelled THEN BOOLEAN ELSE {FALSE} :
          moduleNodes' = IF applied
                         THEN moduleNodes \cup {[uid |-> im.uid, name |-> msgs[im.msg].Name]}
                         ELSE moduleNodes
    /\ procState' = "fatal"
    /\ UNCHANGED <<auxVars, queueVars, cancelled, run, stageVars, wr, ledger, nextUid, fileNodes, edges,
                   feeds, histVars>>

\* ------------------------------------------------------------------ IterateModuleInfo
\* results and sent are the outcomes of ExecInfo and the targets whose
\* FileInfo was sent, for the module in hand
IdleAnalyzer ==
    [pc |-> "recv", msg |-> 0, work |-> << >>, target |-> EmptyString, info |-> EmptyInfo,
     results |-> << >>, sent |-> << >>]

\* a failed analysis that gives up the module's remaining files
AfterExecInfoErrorAbort(work) == << >>

\* if err != nil { log; continue }: on to the next file
AfterExecInfoError(work) == Tail(work)

\* an analyzer stage that takes its next module without sq.Delete(mod)
NextFilePcSkipDelete(work) == IF work = << >> THEN "recv" ELSE "select"

\* after one (version, file) pair: the next pair's select, or sq.Delete(mod)
NextFilePc(work) == IF work = << >> THEN "delete" ELSE "select"

\* for mod := range mods meets out <- mod of InsertModules
IterateModuleInfo_Recv(order) ==
    /\ Running /\ an.pc = "recv" /\ im.pc = "send"
    /\ order \in Orders(DOMAIN msgs[im.msg].Versions)
    /\ LET work == Pairs(order, msgs[im.msg].Versions)
       IN  an' = [an EXCEPT !.pc = NextFilePc(work), !.msg = im.msg, !.work = work]
    /\ im' = [im EXCEPT !.pc = "recv", !.msg = 0, !.uid = EmptyString]
    /\ UNCHANGED <<auxVars, queueVars, procVars, poll, cm, closed, wr, storeVars, faults, feeds, histVars>>

\* the range over mods ends because mods is closed: close(out)
IterateModuleInfo_Closed ==
    /\ Running /\ an.pc = "recv"
    /\ "inserted" \in closed
    /\ an' = [an EXCEPT !.pc = "returned"]
    /\ closed' = closed \cup {"infos"}
    /\ UNCHANGED <<auxVars, queueVars, procVars, poll, cm, im, wr, storeVars, faults, feeds, histVars>>

\* the select before each file: on cancellation close(out) and return,
\* else build the URL and start deno.ExecInfo
IterateModuleInfo_Select ==
    /\ Running /\ an.pc = "select"
    /\ an' = IF cancelled
             THEN [an EXCEPT !.pc = "returned"]
             ELSE [an EXCEPT !.pc = "exec",
                             !.target = TargetURL(msgs[an.msg].Name, Head(an.work)[1], Head(an.work)[2])]
    /\ closed' = IF cancelled THEN closed \cup {"infos"} ELSE closed
    /\ UNCHANGED <<auxVars, queueVars, procVars, poll, cm, im, wr, storeVars, faults, feeds, histVars>>

\* ExecInfo: the output decoded and cmd.Wait returned nil: (info, nil)
ExecInfo_Returns(info) ==
    /\ Running /\ an.pc = "exec"
    /\ info \in FileInfos
    /\ an' = [an EXCEPT !.pc = "send", !.info = info,
                        !.results = Append(@, [target |-> an.target, outcome |-> "info"])]
    /\ UNCHANGED <<auxVars, queueVars, procVars, poll, cm, im, closed, wr, storeVars, faults, feeds, histVars>>

\* ExecInfo: the select takes <-ctx.Done(): SIGTERM, (DenoInfo{}, nil)
ExecInfo_Cancelled ==
    /\ Running /\ an.pc = "exec" /\ cancelled
    /\ an' = [an EXCEPT !.pc = "send", !.info = EmptyInfo,
                        !.results = Append(@, [target |-> an.target, outcome |-> "cancelled"])]
    /\ UNCHANGED <<auxVars, queueVars, procVars, poll, cm, im, closed, wr, storeVars, faults, feeds, histVars>>

\* ExecInfo returns an error: log, continue with the next file
ExecInfo_Fails ==
    /\ Running /\ an.pc = "exec"
    /\ faults < MaxFaults
    /\ faults' = faults + 1
    /\ an' = [an EXCEPT !.pc = NextFilePc(AfterExecInfoError(an.work)),
                        !.work = AfterExecInfoError(an.work), !.target = EmptyString,
                        !.results = Append(@, [target |-> an.target, outcome |-> "error"])]
    /\ UNCHANGED <<auxVars, queueVars, procVars, poll, cm, im, closed, wr, storeVars, feeds, histVars>>

\* out <- info meets for mod := range mods of InsertFiles
IterateModuleInfo_Send ==
    /\ Running /\ an.pc = "send" /\ wr[PipelineWriter].pc = "recv"
    /\ infoSeq' = infoSeq + 1
    /\ emitted' = [emitted EXCEPT ![an.msg] = @ \cup {infoSeq + 1}]
    /\ InsertFiles_Begin(PipelineWriter, an.info, infoSeq + 1)
    /\ an' = [an EXCEPT !.pc = NextFilePc(Tail(an.work)), !.work = Tail(an.work),
                        !.target = EmptyString, !.info = EmptyInfo,
                        !.sent = Append(@, an.target)]
    /\ UNCHANGED <<auxVars, queueVars, procVars, poll, cm, im, closed, storeVars, faults, feeds,
                   committed, commitLog, abortedUids>>

\* after the loops over the versions and their files: sq.Delete(mod)
IterateModuleInfo_Delete ==
    /\ Running /\ an.pc = "delete"
    /\ sqs' = SQSQueue_Delete(sqs, an.msg)
    /\ an' = IdleAnalyzer
    /\ UNCHANGED <<auxVars, msgs, bodies, deliveries, procVars, poll, cm, im, closed, wr, storeVars, faults, feeds, histVars>>

\* sq.Delete returns an error: log.Fatalf
IterateModuleInfo_DeleteFails ==
    /\ Running /\ an.pc = "delete"
    /\ faults < MaxFaults
    /\ faults' = faults + 1
    /\ procState' = "fatal"
    /\ UNCHANGED <<auxVars, queueVars, cancelled, run, stageVars, wr, storeVars, feeds, histVars>>

\* ------------------------------------------------------------------ discovery
\* if num < 50: the depth below which WatchQueue starts Crawl
Threshold == 50

\* a depth that still starts a run although the queue holds Threshold messages
AtMostThreshold(num) == num <= Threshold

\* num < 50
BelowThreshold(num) == num < Threshold

\* AttributeNames of the GetQueueAttributesInput
AttributeNames ==
    {"ApproximateNumberOfMessages", "ApproximateNumberOfMessagesDelayed",
     "ApproximateNumberOfMessagesNotVisible"}

\* the decimal digits of n, as the service writes a counter in out.Attributes
RECURSIVE Itoa(_)
Itoa(n) == IF n < 10 THEN <<n>> ELSE Append(Itoa(n \div 10), n % 10)

\* strconv.Atoi(v): the number v spells and a nil error, or 0 and an error
\* when v is empty or holds something that is not a digit
RECURSIVE DigitsValue(_)
DigitsValue(v) == IF v = << >> THEN 0 ELSE 10 * DigitsValue(SubSeq(v, 1, Len(v) - 1)) + v[Len(v)]

Atoi(v) ==
    IF v # << >> /\ \A k \in DOMAIN v : v[k] \in 0..9
    THEN [i |-> DigitsValue(v), err |-> FALSE]
    ELSE [i |-> 0, err |-> TRUE]

\* the counters of the service when GetQueueAttributes reads them: an empty
\* queue, and queues one message below the threshold and at the threshold
\* with messages of each of the three kinds
CounterReadings ==
    {[a \in AttributeNames |-> 0]} \cup
    {[a \in AttributeNames |-> IF a = "ApproximateNumberOfMessages" THEN n ELSE 1] :
        n \in {Threshold - 3, Threshold - 2}}

\* out.Attributes for a reading of the counters
QueueAttributes(reading) == [a \in AttributeNames |-> Itoa(reading[a])]

\* total := 0; for _, v := range out.Attributes { i, err := strconv.Atoi(v);
\* total += i }: an Atoi error is logged and its 0 added
RECURSIVE SumAttributes(_, _)
SumAttributes(attrs, names) ==
    IF names = {} THEN 0
    ELSE LET a == CHOOSE n \in names : TRUE
         IN  Atoi(attrs[a]).i + SumAttributes(attrs, names \ {a})

\* a total that counts the visible messages only
ApproxVisibleOnly(attrs) == Atoi(attrs["ApproximateNumberOfMessages"]).i

\* SQSQueue.Approx when GetQueueAttributes returned out.Attributes
Approx(attrs) == SumAttributes(attrs, DOMAIN attrs)

\* resp.StatusCode of a registry response
Statuses == {200, 404}

\* the listing as the registry gave it
FilteredListingRaw(listing) == listing

\* dir = stripUselessEntries(dir)
FilteredListing(listing) == stripUselessEntries(listing)

\* sequences over S without repetition, up to length n
ListsOf(S, n) == {l \in UNION {[1..k -> S] : k \in 0..n} : \A i, j \in DOMAIN l : l[i] = l[j] => i = j}

\* directory listings of meta.json: flat, with a directory, with files in
\* directories nested one and two levels deep, with two directories in a row
RegistryListings ==
    {<< >>,
     <<[Path |-> <<<<"mod", "ts">>>>, Type |-> "file"]>>,
     <<[Path |-> <<<<"sub">>>>, Type |-> "dir"],
       [Path |-> <<<<"sub">>, <<"deep">>>>, Type |-> "dir"],
       [Path |-> <<<<"sub">>, <<"deep">>, <<"view", "tsx">>>>, Type |-> "file"]>>,
     <<[Path |-> <<<<"mod", "ts">>>>, Type |-> "dir"],
       [Path |-> <<<<"mod", "ts">>, <<"README", "md">>>>, Type |-> "file"]>>}

\* number of versions a versions.json of the registry can list
MaxCrawlVersions == 2

RegistryVersions == {VersionName(i) : i \in 1..MaxCrawlVersions}

\* what json.Unmarshal makes of a response: decodes is err == nil, value the
\* decoded body
ListResponses == [status : Statuses, decodes : BOOLEAN, value : ListsOf(ModuleNames, MaxMsgs)]
VersionResponses == [status : Statuses, decodes : BOOLEAN, value : ListsOf(RegistryVersions, MaxCrawlVersions)]
ListingResponses == [status : Statuses, decodes : BOOLEAN, value : RegistryListings]

\* the goroutine of WatchQueue at the top of its loop
\* (reading: the counters behind the last answer of sq.Approx())
IdleWatcher ==
    [pc |-> "select", num |-> 0, seen |-> "nil", waitOn |-> "nil",
     reading |-> [a \in AttributeNames |-> 0]]

\* Crawl not called
IdleCrawl == [pc |-> "idle", seen |-> "nil", list |-> << >>, status |-> 0]

\* go func(mod string, wg *sync.WaitGroup): wgDone is whether it called
\* wg.Done(); versions and raw are what the registry returned to it
NewWorker(mod) ==
    [name |-> mod, pc |-> "start", todo |-> << >>, versionMap |-> EmptyMap,
     statuses |-> {}, outcome |-> "running", wgDone |-> FALSE,
     versions |-> << >>, raw |-> EmptyMap]

\* a worker that on cancellation leaves its loop and puts what it has
WorkerCancelledBreak(w) == [workers EXCEPT ![w].pc = "put"]

\* case <-ctx.Done(): wg.Done(); return
WorkerCancelled(w) ==
    [workers EXCEPT ![w].pc = "returned", ![w].outcome = "cancelled", ![w].wgDone = TRUE]

\* errs <- err of a goroutine of Crawl, passed on by WatchQueue's forwarding
\* goroutine with errs <- e: a send on the closed errs panics
ForwardError(state) == IF "crawlErrs" \in closed THEN "panic" ELSE state

\* select { case <-ctx.Done(): close(errs); default: }: no return follows,
\* and close of the closed errs panics
WatchQueue_Select ==
    /\ Running /\ wq.pc = "select"
    /\ IF cancelled /\ "crawlErrs" \in closed
       THEN /\ procState' = "panic"
            /\ UNCHANGED <<wq, closed>>
       ELSE /\ procState' = procState
            /\ closed' = IF cancelled THEN closed \cup {"crawlErrs"} ELSE closed
            /\ wq' = [wq EXCEPT !.pc = "approx"]
    /\ UNCHANGED <<ex, mg, cq, stripVars, throttleVars, xdone, crawl, workers, putLog, queueVars, cancelled,
                   run, poll, cm, im, an, wr, storeVars, faults, feeds, histVars>>

\* num, err := sq.Approx() with err == nil, then if num < 50
WatchQueue_Approx(reading) ==
    /\ Running /\ wq.pc = "approx"
    /\ LET num == Approx(QueueAttributes(reading))
       IN  wq' = [wq EXCEPT !.pc = IF BelowThreshold(num) THEN "crawl" ELSE "sleep",
                            !.num = num, !.reading = reading]
    /\ UNCHANGED <<ex, mg, cq, stripVars, throttleVars, xdone, crawl, workers, putLog, pipeVars>>

\* GetQueueAttributes fails: sq.Approx() returns -1 and the error;
\* errs <- err; continue
WatchQueue_ApproxFails ==
    /\ Running /\ wq.pc = "approx"
    /\ faults < MaxFaults
    /\ faults' = faults + 1
    /\ procState' = ForwardError(procState)
    /\ wq' = [wq EXCEPT !.pc = "select", !.num = 0 - 1]
    /\ UNCHANGED <<ex, mg, cq, stripVars, throttleVars, xdone, crawl, workers, putLog, queueVars, cancelled,
                   run, stageVars, wr, storeVars, feeds, histVars>>

\* crawlErrs := crawler.Crawl(ctx): the goroutine of Crawl starts
WatchQueue_Crawl ==
    /\ Running /\ wq.pc = "crawl"
    /\ crawl' = [IdleCrawl EXCEPT !.pc = "check"]
    /\ wq' = [wq EXCEPT !.pc = "done"]
    /\ UNCHANGED <<ex, mg, cq, stripVars, throttleVars, xdone, workers, putLog, pipeVars>>

\* crawler.Done(): if x.done == nil
WatchQueue_Done ==
    /\ Running /\ wq.pc = "done"
    /\ wq' = [wq EXCEPT !.pc = "make", !.seen = xdone]
    /\ UNCHANGED <<ex, mg, cq, stripVars, throttleVars, xdone, crawl, workers, putLog, pipeVars>>

\* crawler.Done(): x.done = make(chan bool) if it was nil; return x.done.
\* WatchQueue then waits in <-crawler.Done() for a send or a close
WatchQueue_DoneReturns ==
    /\ Running /\ wq.pc = "make"
    /\ xdone' = IF wq.seen = "nil" THEN "made by Done" ELSE xdone
    /\ wq' = [wq EXCEPT !.pc = "wait", !.waitOn = xdone']
    /\ UNCHANGED <<ex, mg, cq, stripVars, throttleVars, crawl, workers, putLog, pipeVars>>

\* time.Sleep(1 * time.Second) is over
WatchQueue_Sleep ==
    /\ Running /\ wq.pc = "sleep"
    /\ wq' = [wq EXCEPT !.pc = "select"]
    /\ UNCHANGED <<ex, mg, cq, stripVars, throttleVars, xdone, crawl, workers, putLog, pipeVars>>

\* Crawl: if x.done == closedchan || x.done == nil (closedchan is never
\* assigned to x.done)
Crawl_CheckDone ==
    /\ Running /\ crawl.pc = "check"
    /\ crawl' = [crawl EXCEPT !.pc = "make", !.seen = xdone]
    /\ UNCHANGED <<ex, mg, cq, stripVars, throttleVars, wq, xdone, workers, putLog, pipeVars>>

\* Crawl: x.done = make(chan bool)
Crawl_MakeDone ==
    /\ Running /\ crawl.pc = "make"
    /\ xdone' = IF crawl.seen = "nil" THEN "made by Crawl" ELSE xdone
    /\ crawl' = [crawl EXCEPT !.pc = "list"]
    /\ UNCHANGED <<ex, mg, cq, stripVars, throttleVars, wq, workers, putLog, pipeVars>>

\* listAllModules: DoRequest returned a response. The status is not looked
\* at: a body that decodes is the list, one that does not is the error, and
\* then errs <- err; close(errs); return
listAllModules_Returns(resp) ==
    /\ Running /\ crawl.pc = "list"
    /\ crawl' = IF resp.decodes
                THEN [crawl EXCEPT !.pc = "range", !.list = resp.value, !.status = resp.status]
                ELSE [crawl EXCEPT !.pc = "returned"]
    /\ procState' = IF resp.decodes THEN procState ELSE ForwardError(procState)
    /\ UNCHANGED <<ex, mg, cq, stripVars, throttleVars, wq, xdone, workers, putLog, queueVars, cancelled,
                   run, stageVars, wr, storeVars, faults, feeds, histVars>>

\* listAllModules: DoRequest returned an error
listAllModules_Fails ==
    /\ Running /\ crawl.pc = "list"
    /\ faults < MaxFaults
    /\ faults' = faults + 1
    /\ crawl' = [crawl EXCEPT !.pc = "returned"]
    /\ procState' = ForwardError(procState)
    /\ UNCHANGED <<ex, mg, cq, stripVars, throttleVars, wq, xdone, workers, putLog, queueVars, cancelled,
                   run, stageVars, wr, storeVars, feeds, histVars>>

\* for mod := range list: wg.Add(1) and go func(mod, &wg). list is never
\* closed, so the range blocks once the names are used up and wg.Wait(),
\* x.done <- true and close(x.done) after it are never reached
Crawl_Range ==
    /\ Running /\ crawl.pc = "range"
    /\ crawl.list # << >>
    /\ workers' = Append(workers, NewWorker(Head(crawl.list)))
    /\ crawl' = [crawl EXCEPT !.list = Tail(@)]
    /\ UNCHANGED <<ex, mg, cq, stripVars, throttleVars, wq, xdone, putLog, pipeVars>>

\* the worker's first select: on cancellation wg.Done() and return
Crawl_WorkerSelect(w) ==
    /\ Running /\ workers[w].pc = "start"
    /\ workers' = IF cancelled
                  THEN WorkerCancelled(w)
                  ELSE [workers EXCEPT ![w].pc = "versions"]
    /\ UNCHANGED <<ex, mg, cq, stripVars, throttleVars, wq, xdone, crawl, putLog, pipeVars>>

\* the select before each version, or Put at once when none is left
NextVersionPc(todo) == IF todo = << >> THEN "put" ELSE "select"

\* a registry operation of the worker returned an error: errs <- err;
\* return, without wg.Done()
WorkerError(w) == [workers EXCEPT ![w].pc = "returned", ![w].outcome = "error"]

\* listModuleVersions: DoRequest returned a response; the status is not
\* looked at
listModuleVersions_Returns(w, resp) ==
    /\ Running /\ workers[w].pc = "versions"
    /\ workers' = IF resp.decodes
                  THEN [workers EXCEPT ![w].pc = NextVersionPc(resp.value),
                                       ![w].todo = resp.value,
                                       ![w].versions = resp.value,
                                       ![w].statuses = @ \cup {resp.status}]
                  ELSE WorkerError(w)
    /\ procState' = IF resp.decodes THEN procState ELSE ForwardError(procState)
    /\ UNCHANGED <<ex, mg, cq, stripVars, throttleVars, wq, xdone, crawl, putLog, queueVars, cancelled,
                   run, stageVars, wr, storeVars, faults, feeds, histVars>>

\* listModuleVersions: DoRequest returned an error
listModuleVersions_Fails(w) ==
    /\ Running /\ workers[w].pc = "versions"
    /\ faults < MaxFaults
    /\ faults' = faults + 1
    /\ workers' = WorkerError(w)
    /\ procState' = ForwardError(procState)
    /\ UNCHANGED <<ex, mg, cq, stripVars, throttleVars, wq, xdone, crawl, putLog, queueVars, cancelled,
                   run, stageVars, wr, storeVars, feeds, histVars>>

\* the select before each version: on cancellation wg.Done() and return
Crawl_VersionSelect(w) ==
    /\ Running /\ workers[w].pc = "select"
    /\ workers' = IF cancelled
                  THEN WorkerCancelled(w)
                  ELSE [workers EXCEPT ![w].pc = "listing"]
    /\ UNCHANGED <<ex, mg, cq, stripVars, throttleVars, wq, xdone, crawl, putLog, pipeVars>>

\* getModuleVersionDirectoryListing: DoRequest returned a response; the
\* status is not looked at. Then dir = stripUselessEntries(dir) and
\* versionMap[ver] = dir
getModuleVersionDirectoryListing_Returns(w, resp) ==
    /\ Running /\ workers[w].pc = "listing"
    /\ workers' = IF resp.decodes
                  THEN LET ver == Head(workers[w].todo)
                           dirs == [v \in DOMAIN workers[w].versionMap \cup {ver} |->
                                       IF v = ver THEN FilteredListing(resp.value)
                                       ELSE workers[w].versionMap[v]]
                       IN  [workers EXCEPT ![w].pc = NextVersionPc(Tail(workers[w].todo)),
                                           ![w].todo = Tail(@),
                                           ![w].versionMap = dirs,
                                           ![w].raw = [v \in DOMAIN dirs |->
                                                          IF v = ver THEN resp.value ELSE @[v]],
                                           ![w].statuses = @ \cup {resp.status}]
                  ELSE WorkerError(w)
    /\ procState' = IF resp.decodes THEN procState ELSE ForwardError(procState)
    /\ UNCHANGED <<ex, mg, cq, stripVars, throttleVars, wq, xdone, crawl, putLog, queueVars, cancelled,
                   run, stageVars, wr, storeVars, faults, feeds, histVars>>

\* getModuleVersionDirectoryListing: DoRequest returned an error
getModuleVersionDirectoryListing_Fails(w) ==
    /\ Running /\ workers[w].pc = "listing"
    /\ faults < MaxFaults
    /\ faults' = faults + 1
    /\ workers' = WorkerError(w)
    /\ procState' = ForwardError(procState)
    /\ UNCHANGED <<ex, mg, cq, stripVars, throttleVars, wq, xdone, crawl, putLog, queueVars, cancelled,
                   run, stageVars, wr, storeVars, feeds, histVars>>

\* x.Queue.Put(Module{Name: mod, Versions: versionMap}): SendMessage adds
\* the message to the queue; then wg.Done()
SQSQueue_Put(w, m) ==
    /\ Running /\ workers[w].pc = "put"
    /\ sqs[m] = "absent"
    /\ LET mod == [Name |-> workers[w].name, Versions |-> workers[w].versionMap]
       IN  /\ bodies' = [bodies EXCEPT ![m] = Marshal(mod)]
           /\ msgs' = [msgs EXCEPT ![m] = Unmarshal(Marshal(mod)).mod]
           /\ putLog' = putLog \cup {[mod |-> mod, versions |-> workers[w].versions,
                                      raw |-> workers[w].raw, afterCancel |-> cancelled,
                                      statuses |-> workers[w].statuses \cup {crawl.status}]}
    /\ sqs' = [sqs EXCEPT ![m] = "visible"]
    /\ workers' = [workers EXCEPT ![w].pc = "returned", ![w].outcome = "put", ![w].wgDone = TRUE]
    /\ UNCHANGED <<ex, mg, cq, stripVars, throttleVars, wq, xdone, crawl, deliveries, procVars, stageVars,
                   wr, storeVars, faults, feeds, histVars>>

\* x.Queue.Put returns an error: errs <- err, then wg.Done()
SQSQueue_PutFails(w) ==
    /\ Running /\ workers[w].pc = "put"
    /\ faults < MaxFaults
    /\ faults' = faults + 1
    /\ workers' = [workers EXCEPT ![w].pc = "returned", ![w].outcome = "put failed",
                                  ![w].wgDone = TRUE]
    /\ procState' = ForwardError(procState)
    /\ UNCHANGED <<ex, mg, cq, stripVars, throttleVars, wq, xdone, crawl, putLog, queueVars, cancelled,
                   run, stageVars, wr, storeVars, feeds, histVars>>

\* no watcher, no discovery run
CrawlIdle ==
    /\ wq = IdleWatcher
    /\ xdone = "nil"
    /\ crawl = IdleCrawl
    /\ workers = << >>
    /\ putLog = {}

\* ------------------------------------------------------------------ main
\* the range over mods of InsertFiles ends: done <- true meets <-done of main,
\* which calls os.Exit(0)
InsertFiles_Done ==
    /\ Running /\ wr[PipelineWriter].pc = "recv"
    /\ "infos" \in closed
    /\ wr' = [wr EXCEPT ![PipelineWriter].pc = "returned"]
    /\ procState' = "exited"
    /\ UNCHANGED <<auxVars, queueVars, cancelled, run, stageVars, storeVars, faults, feeds, histVars>>

\* SIGINT or SIGTERM: cancel()
Cancel ==
    /\ Running /\ ~cancelled
    /\ cancelled' = TRUE
    /\ UNCHANGED <<auxVars, queueVars, procState, run, stageVars, wr, storeVars, faults, feeds, histVars>>

\* the process is started again after it ended: what lives in the process is
\* new, the queue, the ledger and the graph are kept
Restart ==
    /\ ~Running
    /\ run < MaxRuns
    /\ run' = run + 1
    /\ procState' = "running"
    /\ cancelled' = FALSE
    /\ poll' = IdlePoller
    /\ cm' = IdleConsumer
    /\ im' = IdleInsertModules
    /\ an' = IdleAnalyzer
    /\ closed' = {}
    /\ wr' = [w \in Writers |-> IdleWriter]
    /\ wq' = IdleWatcher
    /\ xdone' = "nil"
    /\ crawl' = IdleCrawl
    /\ workers' = << >>
    /\ UNCHANGED <<ex, mg, cq, stripVars, throttleVars, putLog, queueVars, storeVars, faults, feeds, histVars>>

\* ------------------------------------------------------------------ specifications
\* nothing received, nothing written
InitProcess ==
    /\ deliveries = [m \in MsgIds |-> 0]
    /\ cancelled = FALSE
    /\ procState = "running"
    /\ run = 1
    /\ poll = IdlePoller
    /\ cm = IdleConsumer
    /\ im = IdleInsertModules
    /\ an = IdleAnalyzer
    /\ wr = [w \in Writers |-> IdleWriter]
    /\ closed = {}
    /\ ledger = EmptyMap
    /\ nextUid = 0
    /\ fileNodes = {}
    /\ edges = {}
    /\ moduleNodes = {}
    /\ faults = 0
    /\ feeds = 0
    /\ emitted = [m \in MsgIds |-> {}]
    /\ infoSeq = 0
    /\ committed = {}
    /\ commitLog = {}
    /\ abortedUids = {}

\* every message of the queue waits to be received
InitRest ==
    /\ sqs = [m \in MsgIds |-> "visible"]
    /\ InitProcess

\* stripUselessEntries not in use
StripIdle == dir = << >> /\ stripped = [done |-> FALSE, out |-> << >>]

\* c.ThrottleRate, in seconds
ThrottleRate == 1

\* clock ticks in one second
TicksPerSecond == 2

\* time.Duration(c.ThrottleRate) * time.Second, in ticks
ThrottleInterval == ThrottleRate * TicksPerSecond

\* the zero time.Time of a new crawler's c.last: long before the start
ZeroTime == 0 - ThrottleInterval

\* number of goroutines calling DoRequest on the one crawler
NumCallers == 2

Callers == 1..NumCallers

\* last tick of the clock
MaxClock == 5

\* requests let through in one execution
MaxRequests == 3

\* no request made yet
ThrottleIdle ==
    /\ now = 0
    /\ mutHolder = 0
    /\ last = ZeroTime
    /\ req = [c \in Callers |-> "idle"]
    /\ starts = << >>

\* ExecInfo not called
ExecIdle ==
    ex = [pc |-> "idle", info |-> EmptyInfo, out |-> EmptyInfo, err |-> "nil",
          signalled |-> FALSE, atStart |-> FALSE, atDecode |-> FALSE]

\* the channels main gives to mergeErrors: errs of IterateModules and
\* crawlErrs of WatchQueue
MergeChans == {"errs", "crawlErrs"}

\* errors one stage sends on its channel
MaxErrors == 2

\* mergeErrors just called: nothing sent, every goroutine in its range.
\* sent: errors sent per channel; open: the channels not closed; hold: the
\* error a goroutine has taken and not passed on (0: none); out: the errors
\* received from the merged channel, in order
MergeIdle ==
    mg = [sent |-> [c \in MergeChans |-> 0], open |-> MergeChans,
          hold |-> [c \in MergeChans |-> 0], returned |-> {}, out |-> << >>]

\* longest buffer of a ChanQueue
MaxCapacity == 2

\* modules put into a ChanQueue in one execution
MaxPuts == 4

\* NewChanQueue(0) with nothing put
ChanIdle == cq = [cap |-> 0, buf |-> << >>, put |-> << >>, got |-> << >>]

AuxIdle == StripIdle /\ ThrottleIdle /\ CrawlIdle /\ ExecIdle /\ MergeIdle /\ ChanIdle

Init ==
    /\ msgs \in [MsgIds -> Modules]
    /\ bodies = [m \in MsgIds |-> Marshal(msgs[m])]
    /\ InitRest
    /\ AuxIdle

\* the steps of the process that main starts, but for the analyzer's answers
PipelineSteps ==
    \/ \E m \in MsgIds : SQSQueue_ReceiveMessage(m)
    \/ \E m \in MsgIds : SQSQueue_VisibilityTimeout(m)
    \/ IterateModules_Select
    \/ IterateModules_Get
    \/ InsertModules_Recv
    \/ InsertModules_Closed
    \/ InsertModules_Mutate
    \/ InsertModules_MutateFails
    \/ InsertModules_Commit
    \/ InsertModules_CommitFails
    \/ \E order \in UNION {[1..n -> VersionNames] : n \in 0..NumVersions} : IterateModuleInfo_Recv(order)
    \/ IterateModuleInfo_Closed
    \/ IterateModuleInfo_Select
    \/ ExecInfo_Cancelled
    \/ ExecInfo_Fails
    \/ IterateModuleInfo_Send
    \/ IterateModuleInfo_Delete
    \/ IterateModuleInfo_DeleteFails
    \/ \E k \in AllSpecifiers : InsertFiles_mutateFile(PipelineWriter, k)
    \/ \E k \in AllSpecifiers : InsertFiles_mutateFileFails(PipelineWriter, k)
    \/ InsertFiles_GetEntryFails(PipelineWriter)
    \/ InsertFiles_Cancelled(PipelineWriter)
    \/ \E k \in AllSpecifiers : InsertFiles_PutEntry(PipelineWriter, k)
    \/ InsertFiles_PutEntryFails(PipelineWriter)
    \/ InsertFiles_Commit(PipelineWriter)
    \/ InsertFiles_CommitFails(PipelineWriter)
    \/ InsertFiles_CommitCancelled(PipelineWriter)
    \/ InsertFiles_Done
    \/ Cancel
    \/ Restart

\* the process that main starts, over the durable queue
Next ==
    \/ PipelineSteps
    \/ \E info \in FileInfos : ExecInfo_Returns(info)

Spec == Init /\ [][Next]_vars

\* the same process over one module of two files, the analyzer answering
\* with one file and no dependency
TwoFileModule ==
    [Name |-> <<"foo">>,
     Versions |-> (VersionName(1) :> <<[Path |-> <<<<"mod", "ts">>>>, Type |-> "file"],
                                       [Path |-> <<<<"cli", "ts">>>>, Type |-> "file"]>>)]

PlainTargetInfos == {[Files |-> (s :> [Deps |-> << >>])] : s \in Specifiers}

\* the module under either kind of name
TwoFileModules == {[TwoFileModule EXCEPT !.Name = n] : n \in ModuleNames}

InitAnalyzer ==
    /\ msgs \in [MsgIds -> TwoFileModules]
    /\ bodies = [m \in MsgIds |-> Marshal(msgs[m])]
    /\ InitRest
    /\ AuxIdle

NextAnalyzer ==
    \/ PipelineSteps
    \/ \E info \in PlainTargetInfos : ExecInfo_Returns(info)

SpecAnalyzer == InitAnalyzer /\ [][NextAnalyzer]_vars

\* the same, the goroutines being scheduled: while a step of a stage that is
\* not a failure of an external call stays possible, one is taken
SpecAnalyzerLive ==
    /\ SpecAnalyzer
    /\ WF_vars(\/ \E m \in MsgIds : SQSQueue_ReceiveMessage(m)
               \/ IterateModules_Select
               \/ IterateModules_Get
               \/ InsertModules_Recv
               \/ InsertModules_Closed
               \/ InsertModules_Mutate
               \/ InsertModules_Commit
               \/ \E order \in UNION {[1..n -> VersionNames] : n \in 0..NumVersions} :
                     IterateModuleInfo_Recv(order)
               \/ IterateModuleInfo_Closed
               \/ IterateModuleInfo_Select
               \/ \E info \in PlainTargetInfos : ExecInfo_Returns(info)
               \/ ExecInfo_Cancelled
               \/ IterateModuleInfo_Send
               \/ IterateModuleInfo_Delete
               \/ \E k \in AllSpecifiers : InsertFiles_mutateFile(PipelineWriter, k)
               \/ InsertFiles_Cancelled(PipelineWriter)
               \/ \E k \in AllSpecifiers : InsertFiles_PutEntry(PipelineWriter, k)
               \/ InsertFiles_Commit(PipelineWriter)
               \/ InsertFiles_CommitFails(PipelineWriter)
               \/ InsertFiles_CommitCancelled(PipelineWriter)
               \/ InsertFiles_Done)

\* the process with its queue watcher, started on an empty queue that
\* discovery fills, followed up to the analyzer's call
InitCrawl ==
    /\ msgs = [m \in MsgIds |-> ZeroModule]
    /\ bodies = [m \in MsgIds |-> Marshal(msgs[m])]
    /\ sqs = [m \in MsgIds |-> "absent"]
    /\ InitProcess
    /\ AuxIdle

WatcherSteps ==
    \/ WatchQueue_Select
    \/ \E reading \in CounterReadings : WatchQueue_Approx(reading)
    \/ WatchQueue_ApproxFails
    \/ WatchQueue_Crawl
    \/ WatchQueue_Done
    \/ WatchQueue_DoneReturns
    \/ WatchQueue_Sleep

CrawlSteps ==
    \/ Crawl_CheckDone
    \/ Crawl_MakeDone
    \/ \E resp \in ListResponses : listAllModules_Returns(resp)
    \/ listAllModules_Fails
    \/ Crawl_Range
    \/ \E w \in DOMAIN workers : Crawl_WorkerSelect(w)
    \/ \E w \in DOMAIN workers, resp \in VersionResponses : listModuleVersions_Returns(w, resp)
    \/ \E w \in DOMAIN workers : listModuleVersions_Fails(w)
    \/ \E w \in DOMAIN workers : Crawl_VersionSelect(w)
    \/ \E w \in DOMAIN workers, resp \in ListingResponses :
          getModuleVersionDirectoryListing_Returns(w, resp)
    \/ \E w \in DOMAIN workers : getModuleVersionDirectoryListing_Fails(w)
    \/ \E w \in DOMAIN workers, m \in MsgIds : SQSQueue_Put(w, m)
    \/ \E w \in DOMAIN workers : SQSQueue_PutFails(w)

\* the stages that take a module from the queue up to the analyzer's call
ConsumerSteps ==
    \/ \E m \in MsgIds : SQSQueue_ReceiveMessage(m)
    \/ IterateModules_Select
    \/ IterateModules_Get
    \/ InsertModules_Recv
    \/ InsertModules_Mutate
    \/ InsertModules_Commit
    \/ \E order \in ListsOf(RegistryVersions, MaxCrawlVersions) : IterateModuleInfo_Recv(order)
    \/ IterateModuleInfo_Select
    \/ Cancel

NextCrawl ==
    \/ WatcherSteps
    \/ CrawlSteps
    \/ ConsumerSteps

SpecCrawl == InitCrawl /\ [][NextCrawl]_vars

\* the bodies a message of the queue can have: a module that Put marshalled,
\* or text of another sender that is not JSON
Bodies == {Marshal(mod) : mod \in Modules} \cup {Garbage}

\* the consumer side of the process over a queue with such messages
InitPoller ==
    /\ bodies \in [MsgIds -> Bodies]
    /\ msgs = [m \in MsgIds |-> Unmarshal(bodies[m]).mod]
    /\ sqs = [m \in MsgIds |-> "visible"]
    /\ InitProcess
    /\ AuxIdle

NextPoller ==
    \/ ConsumerSteps
    \/ \E m \in MsgIds : SQSQueue_VisibilityTimeout(m)

SpecPoller == InitPoller /\ [][NextPoller]_vars

\* two processes' writers over the same ledger and graph, each fed by its
\* own upstream stages with https files
NextWriters ==
    \/ \E w \in Writers, info \in SecureFileInfos : InsertFiles_Feed(w, info)
    \/ \E w \in Writers, k \in Specifiers : InsertFiles_mutateFile(w, k)
    \/ \E w \in Writers, k \in Specifiers : InsertFiles_PutEntry(w, k)
    \/ \E w \in Writers : InsertFiles_Commit(w)

InitWriters ==
    /\ msgs = [m \in MsgIds |-> [Name |-> <<"foo">>, Versions |-> EmptyMap]]
    /\ bodies = [m \in MsgIds |-> Marshal(msgs[m])]
    /\ InitRest
    /\ AuxIdle

SpecWriters == InitWriters /\ [][NextWriters]_vars

\* stripUselessEntries on its own, over every listing of RawListings
NotStripped == [done |-> FALSE, out |-> << >>]

stripUselessEntries_Call ==
    /\ ~stripped.done
    /\ stripped' = [done |-> TRUE, out |-> stripUselessEntries(dir)]
    /\ UNCHANGED <<pipeVars, dir, throttleVars, crawlVars, ex, mg, cq>>

InitStrip ==
    /\ msgs = [m \in MsgIds |-> [Name |-> <<"foo">>, Versions |-> EmptyMap]]
    /\ bodies = [m \in MsgIds |-> Marshal(msgs[m])]
    /\ InitRest
    /\ dir \in RawListings
    /\ stripped = NotStripped
    /\ ThrottleIdle
    /\ CrawlIdle
    /\ ExecIdle
    /\ MergeIdle
    /\ ChanIdle

NextStrip == stripUselessEntries_Call

SpecStrip == InitStrip /\ [][NextStrip]_vars

\* ------------------------------------------------------------------ throttled client
\* time passes
Tick ==
    /\ now < MaxClock
    /\ now' = now + 1
    /\ UNCHANGED <<pipeVars, stripVars, crawlVars, ex, mg, cq, mutHolder, last, req, starts>>

\* a lock that is given although a caller holds it
MutexFreeAlways(holder) == TRUE

\* c.mut.Lock() returns only while no caller holds c.mut
MutexFree(holder) == holder = 0

\* c.mut.Lock()
DoRequest_Lock(c) ==
    /\ req[c] = "idle" /\ MutexFree(mutHolder)
    /\ Len(starts) < MaxRequests
    /\ mutHolder' = c
    /\ req' = [req EXCEPT ![c] = "sleep"]
    /\ UNCHANGED <<pipeVars, stripVars, crawlVars, ex, mg, cq, now, last, starts>>

\* a wake-up that does not wait for the interval
SleepOverAtOnce(at, since) == TRUE

\* time.Sleep(time.Until(c.last.Add(interval))) has returned by the instant
\* at: it sleeps at least until since + interval, and not at all if that is past
SleepOver(at, since) == at >= since + ThrottleInterval

\* the sleep returns; c.last = time.Now(), and the request is handed to
\* c.client.Do
DoRequest_Do(c) ==
    /\ req[c] = "sleep"
    /\ SleepOver(now, last)
    /\ last' = now
    /\ starts' = Append(starts, [caller |-> c, at |-> now])
    /\ req' = [req EXCEPT ![c] = "do"]
    /\ UNCHANGED <<pipeVars, stripVars, crawlVars, ex, mg, cq, now, mutHolder>>

\* c.client.Do returns; the deferred c.mut.Unlock()
DoRequest_Unlock(c) ==
    /\ req[c] = "do"
    /\ mutHolder' = 0
    /\ req' = [req EXCEPT ![c] = "idle"]
    /\ UNCHANGED <<pipeVars, stripVars, crawlVars, ex, mg, cq, now, last, starts>>

InitThrottle ==
    /\ msgs = [m \in MsgIds |-> [Name |-> <<"foo">>, Versions |-> EmptyMap]]
    /\ bodies = [m \in MsgIds |-> Marshal(msgs[m])]
    /\ InitRest
    /\ StripIdle
    /\ ThrottleIdle
    /\ CrawlIdle
    /\ ExecIdle
    /\ MergeIdle
    /\ ChanIdle

NextThrottle ==
    \/ Tick
    \/ \E c \in Callers : DoRequest_Lock(c)
    \/ \E c \in Callers : DoRequest_Do(c)
    \/ \E c \in Callers : DoRequest_Unlock(c)

SpecThrottle == InitThrottle /\ [][NextThrottle]_vars

\* ------------------------------------------------------------------ ExecInfo
\* what Decode reads from the subprocess: a DenoInfo, or output that fails
\* to decode
DecodeResults == FileInfos \cup {EmptyInfo}

\* cmd.StdoutPipe() and cmd.Start(): the subprocess runs, or the call returns
\* the error
ExecInfo_Start(ok) ==
    /\ Running /\ ex.pc = "idle"
    /\ ex' = IF ok THEN [ex EXCEPT !.pc = "decode", !.atStart = cancelled]
                   ELSE [ex EXCEPT !.pc = "returned", !.err = "start failed"]
    /\ UNCHANGED <<pipeVars, stripVars, throttleVars, crawlVars, mg, cq>>

\* json.NewDecoder(stdout).Decode(&info) returns once the subprocess has
\* written its output or closed it; the context is not looked at meanwhile
ExecInfo_Decode(r) ==
    /\ Running /\ ex.pc = "decode"
    /\ ex' = IF r \in FileInfos
             THEN [ex EXCEPT !.pc = "select", !.info = r, !.atDecode = cancelled]
             ELSE [ex EXCEPT !.pc = "returned", !.err = "decode failed", !.atDecode = cancelled]
    /\ UNCHANGED <<pipeVars, stripVars, throttleVars, crawlVars, mg, cq>>

\* select, case <-ctx.Done(): SIGTERM to the subprocess, return DenoInfo{}, nil
ExecInfo_SelectDone ==
    /\ Running /\ ex.pc = "select" /\ cancelled
    /\ ex' = [ex EXCEPT !.pc = "returned", !.signalled = TRUE, !.out = EmptyInfo]
    /\ UNCHANGED <<pipeVars, stripVars, throttleVars, crawlVars, mg, cq>>

\* select, case err := <-errs: cmd.Wait() returned; the error, or info, nil
ExecInfo_SelectErrs(err) ==
    /\ Running /\ ex.pc = "select"
    /\ ex' = IF err = "nil"
             THEN [ex EXCEPT !.pc = "returned", !.out = ex.info]
             ELSE [ex EXCEPT !.pc = "returned", !.err = err]
    /\ UNCHANGED <<pipeVars, stripVars, throttleVars, crawlVars, mg, cq>>

InitExec ==
    /\ msgs = [m \in MsgIds |-> ZeroModule]
    /\ bodies = [m \in MsgIds |-> Marshal(msgs[m])]
    /\ InitRest
    /\ AuxIdle

NextExec ==
    \/ \E ok \in BOOLEAN : ExecInfo_Start(ok)
    \/ \E r \in DecodeResults : ExecInfo_Decode(r)
    \/ ExecInfo_SelectDone
    \/ \E err \in {"nil", "exit status 1"} : ExecInfo_SelectErrs(err)
    \/ Cancel

SpecExec == InitExec /\ [][NextExec]_vars

\* ------------------------------------------------------------------ mergeErrors
\* out <- v with the value sent twice
DeliverTwice(out, v) == Append(Append(out, v), v)

\* out <- v, received by the logger's range over merged
Deliver(out, v) == Append(out, v)

\* a stage's errs <- err meets v := range c of the channel's goroutine; the
\* error is named by its channel and its number on it
Stage_SendError(c) ==
    /\ c \in mg.open /\ c \notin mg.returned
    /\ mg.hold[c] = 0
    /\ mg.sent[c] < MaxErrors
    /\ mg' = [mg EXCEPT !.sent[c] = @ + 1, !.hold[c] = mg.sent[c] + 1]
    /\ UNCHANGED <<pipeVars, stripVars, throttleVars, crawlVars, ex, cq>>

\* a stage closes its error channel
Stage_CloseErrors(c) ==
    /\ c \in mg.open
    /\ mg' = [mg EXCEPT !.open = @ \ {c}]
    /\ UNCHANGED <<pipeVars, stripVars, throttleVars, crawlVars, ex, cq>>

\* the goroutine of channel c: out <- v
mergeErrors_Forward(c) ==
    /\ mg.hold[c] # 0
    /\ mg' = [mg EXCEPT !.out = Deliver(@, <<c, mg.hold[c]>>), !.hold[c] = 0]
    /\ UNCHANGED <<pipeVars, stripVars, throttleVars, crawlVars, ex, cq>>

\* the goroutine of channel c: its range ends because c is closed
mergeErrors_Closed(c) ==
    /\ c \notin mg.open /\ c \notin mg.returned
    /\ mg.hold[c] = 0
    /\ mg' = [mg EXCEPT !.returned = @ \cup {c}]
    /\ UNCHANGED <<pipeVars, stripVars, throttleVars, crawlVars, ex, cq>>

InitMerge ==
    /\ msgs = [m \in MsgIds |-> ZeroModule]
    /\ bodies = [m \in MsgIds |-> Marshal(msgs[m])]
    /\ InitRest
    /\ AuxIdle

NextMerge ==
    \/ \E c \in MergeChans : Stage_SendError(c)
    \/ \E c \in MergeChans : Stage_CloseErrors(c)
    \/ \E c \in MergeChans : mergeErrors_Forward(c)
    \/ \E c \in MergeChans : mergeErrors_Closed(c)

SpecMerge == InitMerge /\ [][NextMerge]_vars

\* ------------------------------------------------------------------ ChanQueue
\* a receive that takes the newest module of the buffer
RecvNewest(buf) == [m |-> buf[Len(buf)], rest |-> SubSeq(buf, 1, Len(buf) - 1)]

\* m, ok := <-q.mods on a buffer that is not empty: its oldest module
Recv(buf) == [m |-> Head(buf), rest |-> Tail(buf)]

\* Put: q.mods <- m goes through while the buffer has room
ChanQueue_Put(m) ==
    /\ Len(cq.put) < MaxPuts
    /\ Len(cq.buf) < cq.cap
    /\ cq' = [cq EXCEPT !.buf = Append(@, m), !.put = Append(@, m)]
    /\ UNCHANGED <<pipeVars, stripVars, throttleVars, crawlVars, ex, mg>>

\* Get: <-q.mods returns the module at the front of the buffer
ChanQueue_Get ==
    /\ cq.buf # << >>
    /\ cq' = [cq EXCEPT !.buf = Recv(cq.buf).rest, !.got = Append(@, Recv(cq.buf).m)]
    /\ UNCHANGED <<pipeVars, stripVars, throttleVars, crawlVars, ex, mg>>

\* a channel without buffer: q.mods <- m of a Put meets <-q.mods of a Get
ChanQueue_PutGet(m) ==
    /\ Len(cq.put) < MaxPuts
    /\ cq.cap = 0
    /\ cq' = [cq EXCEPT !.put = Append(@, m), !.got = Append(@, m)]
    /\ UNCHANGED <<pipeVars, stripVars, throttleVars, crawlVars, ex, mg>>

\* NewChanQueue(buf) for each capacity
InitChan ==
    /\ msgs = [m \in MsgIds |-> ZeroModule]
    /\ bodies = [m \in MsgIds |-> Marshal(msgs[m])]
    /\ InitRest
    /\ StripIdle /\ ThrottleIdle /\ CrawlIdle /\ ExecIdle /\ MergeIdle
    /\ \E buf \in 0..MaxCapacity : cq = [cap |-> buf, buf |-> << >>, put |-> << >>, got |-> << >>]

\* the modules put: named foo or std, without versions
NextChan ==
    \/ \E n \in ModuleNames : ChanQueue_Put([Name |-> n, Versions |-> EmptyMap])
    \/ ChanQueue_Get
    \/ \E n \in ModuleNames : ChanQueue_PutGet([Name |-> n, Versions |-> EmptyMap])

SpecChan == InitChan /\ [][NextChan]_vars

\* ------------------------------------------------------------------ properties
\* C1: every deleted queue message belongs to a module all of whose emitted
\* FileInfos had their transaction committed by the writer before the delete.
C1_DeleteOnlyAfterCommit ==
    \A m \in MsgIds : sqs[m] = "deleted" => emitted[m] \subseteq committed

\* C2: whatever sequence of FileInfos the writer processes, the File nodes
\* the graph holds for one specifier are one node: later mutations reuse the
\* identity of the first write.
C2_OneFileNodePerSpecifier ==
    \A n1, n2 \in fileNodes : n1.specifier = n2.specifier => n1.uid = n2.uid

\* C3: every committed File node has its specifier in the ledger, with the
\* node's identity as the entry's identity (the ledger is keyed by specifier,
\* so there is one entry).
C3_LedgerMatchesNodes ==
    \A n \in fileNodes : n.specifier \in DOMAIN ledger /\ ledger[n.specifier] = n.uid

\* C4: once the root context is cancelled, no queue message is deleted.
C4_NoDeleteAfterCancel ==
    [][cancelled => \A m \in MsgIds : sqs'[m] = "deleted" => sqs[m] = "deleted"]_vars

\* C5: no ledger entry holds an identity that was assigned in a transaction
\* which ended without committing.
C5_NoLedgerEntryForUncommitted ==
    \A k \in DOMAIN ledger : ledger[k] \notin abortedUids

C7_OneReferencePerDep ==
    \A w \in Writers :
        LET m == wr[w].mut
        IN  m # NoMutation =>
                /\ Len(m.file.DependsOn) = Len(m.entry.Deps)
                /\ \A i \in 1..Len(m.file.DependsOn) : m.file.DependsOn[i].Uid # EmptyString

\* C8: processing the same content again (a redelivery, a second run) adds
\* no node: one Module node per module name and one File node per specifier.
C8_Idempotent ==
    /\ \A n1, n2 \in moduleNodes : n1.name = n2.name => n1.uid = n2.uid
    /\ \A n1, n2 \in fileNodes : n1.specifier = n2.specifier => n1.uid = n2.uid

\* C9: with two writers, the committed File nodes of one specifier are one
\* node, and it is the one whose identity the ledger holds.
C9_FirstIdentityWins ==
    \A n1, n2 \in fileNodes :
        n1.specifier = n2.specifier =>
            /\ n1.uid = n2.uid
            /\ n1.specifier \in DOMAIN ledger => ledger[n1.specifier] = n1.uid

\* C10: past startup no failure of an external call ends the process.
C10_NoFatalError == procState # "fatal"

\* C11: while the transaction of a FileInfo is discarded because one of its
\* mutations failed, the FileInfo is not committed and the queue message of
\* its module is not deleted.
C11_GraphErrorPolicy ==
    LET w == wr[PipelineWriter]
    IN  (w.pc \in {"loop", "put", "commit"} /\ w.txn.finished) =>
            /\ w.id \notin committed
            /\ \A m \in MsgIds : w.id \in emitted[m] => sqs[m] # "deleted"

\* C17: a put never changes or removes an entry the ledger already has, so
\* each specifier keeps the identity of the first put for it.
C17_ConditionalInsert ==
    [][\A k \in DOMAIN ledger : k \in DOMAIN ledger' /\ ledger'[k] = ledger[k]]_vars

\* C17 witness: a writer that minted an identity for a specifier has put it,
\* and the ledger still holds the identity another writer put first.
C17_Witness ==
    \E w \in Writers :
        LET k == wr[w].mut.specifier
        IN  /\ wr[w].pc = "commit"
            /\ IsBlank(wr[w].mut.file.Uid)
            /\ k \in DOMAIN ledger
            /\ k \notin DOMAIN wr[w].uids
            /\ ledger[k] \notin wr[w].txn.minted
\* C13: stripUselessEntries returns the sublist, in input order, of the
\* entries whose type is file and whose path has extension .js, .ts, .jsx or
\* .tsx or basename README.md.
C13_StripIsFilter ==
    LET Keep(e) == /\ e.Type = "file"
                   /\ \/ Ext(e.Path) \in SourceExts
                      \/ Base(e.Path) = <<"README", "md">>
    IN  stripped.done => stripped.out = SelectSeq(dir, Keep)

\* C13 witness: a listing with a directory, a dropped file and two adjacent
\* dropped entries has been stripped to a non-empty listing.
C13_Witness ==
    /\ stripped.done /\ stripped.out # << >>
    /\ Len(dir) = MaxListing
    /\ dir[1].Type = "dir" /\ dir[2].Type = "file" /\ dir[2].Path = <<<<"foo", "md">>>>
\* C16: any two requests let through by the one throttled client, whoever
\* called, start at least the throttle interval apart (a request starts at
\* the instant DoRequest records in c.last).
C16_MinimumInterval ==
    \A i, j \in 1..Len(starts) :
        i < j => starts[j].at - starts[i].at >= ThrottleInterval

\* C16 witness: two callers' requests went through one after the other, the
\* later one exactly one interval after the earlier.
C16_Witness ==
    /\ Len(starts) >= 2
    /\ starts[1].caller # starts[2].caller
    /\ starts[2].at - starts[1].at = ThrottleInterval
\* C12: no FileInfo is sent for a file whose analysis failed, and when the
\* stage is through with a module every file of it was analysed and the
\* FileInfo of every file whose analysis did not fail was sent, in order.
C12_AnalyzerFailureTolerance ==
    LET failed == {i \in 1..Len(an.results) : an.results[i].outcome = "error"}
        Other(i) == an.results[i].outcome # "error"
        targets == [i \in 1..Len(an.results) |-> an.results[i].target]
    IN  /\ \A i \in failed : \A j \in 1..Len(an.sent) : an.sent[j] # targets[i]
        /\ an.pc = "delete" =>
               /\ Len(an.results) = Len(Pairs(<<VersionName(1)>>, msgs[an.msg].Versions))
               /\ an.sent = SelectSeq(targets, LAMBDA u : \E i \in 1..Len(targets) :
                                                            targets[i] = u /\ Other(i))

\* C12 witness: the analysis of the first file failed, the second file was
\* analysed and its FileInfo sent, and the stage is through with the module.
C12_Witness ==
    /\ an.pc = "delete"
    /\ Len(an.results) = 2
    /\ an.results[1].outcome = "error"
    /\ an.results[2].outcome = "info"
    /\ an.sent = <<an.results[2].target>>
    /\ procState = "running"
\* C18: a worker of the pipeline that has returned has closed its output
\* channel (IterateModules its two channels).
C18_WorkersCloseOnCancel ==
    /\ cm.pc = "returned" => {"toInsert", "errs"} \subseteq closed
    /\ im.pc = "returned" => "inserted" \in closed
    /\ an.pc = "returned" => "infos" \in closed

\* C19: after the cancellation the running process can always take a step
\* towards its exit: it is never left with every goroutine blocked and the
\* completion signal not sent (states in which only the bound on deliveries
\* keeps a message from coming are left out).
C19_TerminatesAfterCancel ==
    (/\ cancelled /\ Running
     /\ \A m \in MsgIds : sqs[m] = "deleted" \/ deliveries[m] < MaxDeliveries)
        => ENABLED Next

\* C20: a discovery run is started only after a poll that returned a depth
\* below the threshold, and once the watcher has started a run it is at a
\* poll again (its select, Approx or sleep) only in a process in which that
\* run's done channel was signalled: as no run of Crawl gets past its range
\* over the never closed list, the watcher stays where it waits.
C20_WatcherTriggersAndWaits ==
    /\ (wq.pc \in {"crawl", "done", "make", "wait"} \/ crawl.pc # "idle") => wq.num < Threshold
    /\ crawl.pc # "idle" => wq.pc \in {"done", "make", "wait"}
    /\ wq.pc = "wait" => wq.waitOn \in {"made by Done", "made by Crawl"}

\* a run was started at depth 49, its worker has put its module and the
\* watcher still waits for the run
C20_Witness ==
    /\ wq.pc = "wait" /\ wq.num = Threshold - 1
    /\ crawl.pc = "range" /\ crawl.list = << >>
    /\ workers # << >> /\ \A w \in DOMAIN workers : workers[w].outcome = "put"
    /\ procState = "running"

\* C15: every module given to the queue was built from responses with
\* status 200 only, and a worker that got a result from a registry operation
\* got it from a response with status 200.
C15_RegistryErrors ==
    /\ \A p \in putLog : p.statuses \subseteq {200}
    /\ \A w \in DOMAIN workers : workers[w].statuses \subseteq {200}
    /\ crawl.pc = "range" => crawl.status = 200

\* C14: every entry of every module that discovery put on the queue, and
\* every entry the analyzer stage has in hand, is of type file.
C14_NoDirReachesAnalyzer ==
    /\ \A p \in putLog : \A v \in DOMAIN p.mod.Versions :
          \A i \in DOMAIN p.mod.Versions[v] : p.mod.Versions[v][i].Type = "file"
    /\ \A m \in MsgIds : sqs[m] # "absent" =>
          \A v \in DOMAIN msgs[m].Versions :
             \A i \in DOMAIN msgs[m].Versions[v] : msgs[m].Versions[v][i].Type = "file"
    /\ \A i \in DOMAIN an.work : an.work[i][2].Type = "file"

\* the analyzer is invoked for the file two directories deep of a module
\* whose listing had the two directories before it
C14_Witness ==
    /\ an.pc = "exec"
    /\ Head(an.work)[2].Path = <<<<"sub">>, <<"deep">>, <<"view", "tsx">>>>
    /\ \E p \in putLog : p.mod = msgs[an.msg]

\* C21: a discovery run whose goroutine has used up the list of names (or gave
\* up on list_modules) and whose workers have all returned is not left with
\* the watcher waiting: the run or the watcher can take its next step towards
\* the done signal.
C21_CrawlSignalsDone ==
    (/\ Running /\ wq.pc = "wait"
     /\ crawl.pc \in {"range", "returned"} /\ crawl.list = << >>
     /\ \A w \in DOMAIN workers : workers[w].pc = "returned")
        => ENABLED (WatcherSteps \/ CrawlSteps)

C23_Cycle ==
    [][LET w == wr[PipelineWriter]
           a == Specifier(1)
           b == Specifier(2)
       IN  (/\ w.pc = "commit" /\ w.id = 1 /\ fileNodes = {} /\ edges = {}
            /\ ~cancelled /\ w.keys = {a, b}
            /\ DOMAIN w.info.Files = {a, b}
            /\ w.info.Files[a].Deps = <<b>> /\ w.info.Files[b].Deps = <<a>>
            /\ committed' = {1})
               => /\ Cardinality(fileNodes') = 2
                  /\ Cardinality(DOMAIN ledger') = 2
                  /\ \E na, nb \in fileNodes' :
                        /\ na.specifier = a /\ nb.specifier = b
                        /\ edges' = {<<na.uid, nb.uid>>, <<nb.uid, na.uid>>}]_vars

\* C24: a mutation that depends on a specifier S which a transaction that took
\* effect already depended on refers to S by the identity the ledger holds
\* for it, not by a blank name that makes a second node.
C24_SharedDependency ==
    LET m == wr[PipelineWriter].mut
        n == Len(m.entry.Deps)
    IN  m # NoMutation =>
            \A i \in 1..n :
                (\E c \in commitLog : m.entry.Deps[i] \in c.deps) =>
                    /\ m.entry.Deps[i] \in DOMAIN ledger
                    /\ m.file.DependsOn[n + i].Uid = ledger[m.entry.Deps[i]]

\* C25: a depends_on reference that a mutation makes by a blank name, its
\* specifier having no identity in the ledger and not being the file's own,
\* carries that specifier, and
\* the target of every committed depends_on edge is a committed node that
\* carries a specifier.
C25_NoDanglingTarget ==
    /\ LET m == wr[PipelineWriter].mut
           n == Len(m.entry.Deps)
       IN  m # NoMutation =>
              \A i \in 1..n :
                 (IsBlank(m.file.DependsOn[n + i].Uid) /\ m.entry.Deps[i] # m.specifier) =>
                    m.file.DependsOn[n + i].Specifier = m.entry.Deps[i]
    /\ \A e \in edges : \E n \in fileNodes : n.uid = e[2]

C27_CancelledExecInfo ==
    (ex.pc = "returned" /\ ~ex.atStart /\ ex.atDecode)
        => ex.signalled /\ ex.out = EmptyInfo /\ ex.err = "nil"

\* C28: InsertModules sends a module downstream only when the transaction of
\* its Module node has committed, and a failure of that transaction's commit
\* does not end the process (when the process ends while InsertModules is in
\* Commit, another stage was in a call whose failure is fatal).
C28_InsertModulesPassthrough ==
    /\ [](im.pc = "send" =>
             [uid |-> im.uid, name |-> msgs[im.msg].Name] \in moduleNodes)
    /\ [][(im.pc = "commit" /\ procState' = "fatal")
             => \/ wr[PipelineWriter].pc \in {"loop", "put"}
                \/ an.pc = "delete"]_vars

\* C29: every key of the ledger starts with https://, and once the writer is
\* past the puts that follow a successful mutation, every specifier of that
\* mutation (the file's and its dependencies') that starts with https:// has
\* an entry in the ledger: its identity from the response, or the one the
\* ledger already held.
C29_LedgerHoldsHttpsPairs ==
    /\ \A k \in DOMAIN ledger : HasPrefix(k, <<"https://">>)
    /\ LET w == wr[PipelineWriter]
           m == w.mut
           named == {m.specifier} \cup {m.entry.Deps[i] : i \in DOMAIN m.entry.Deps}
       IN  (m # NoMutation /\ w.pc \in {"loop", "commit"} /\ ~w.txn.finished) =>
              \A k \in named :
                 HasPrefix(k, <<"https://">>) =>
                    /\ k \in DOMAIN ledger
                    /\ ledger[k] \in w.txn.minted \/ BlankUid(k) \notin
                          {m.file.Uid} \cup {m.file.DependsOn[i].Uid : i \in DOMAIN m.file.DependsOn}

\* the mutation of a file with a plain http dependency was followed by the
\* put of the file's own pair only
C29_Witness ==
    LET w == wr[PipelineWriter]
    IN  /\ w.pc = "commit" /\ ~w.txn.finished
        /\ w.mut.entry.Deps = <<PlainSpecifier>>
        /\ DOMAIN ledger = {w.mut.specifier}
        /\ ledger[w.mut.specifier] \in w.txn.minted
        /\ Cardinality(w.txn.minted) > 1

\* C30: the errors received from the merged channel are, for every input
\* channel, the errors sent on it so far in order, each once, but for the one
\* its goroutine holds; and a goroutine that holds an error can pass it on,
\* and a stage can send while its channel's goroutine holds nothing, whatever
\* the state of the other channels.
C30_MergeExactlyOnce ==
    \A c \in MergeChans :
        LET FromC(e) == e[1] = c
            got == SelectSeq(mg.out, FromC)
            n == mg.sent[c] - (IF mg.hold[c] # 0 THEN 1 ELSE 0)
        IN  /\ got = [i \in 1..n |-> <<c, i>>]
            /\ mg.hold[c] # 0 => mg.hold[c] = mg.sent[c] /\ ENABLED mergeErrors_Forward(c)
            /\ (c \in mg.open /\ mg.hold[c] = 0 /\ mg.sent[c] < MaxErrors)
                  => ENABLED Stage_SendError(c)

\* both errors of errs came out while crawlErrs, closed with its goroutine
\* returned, had sent one
C30_Witness ==
    /\ mg.out = <<<<"crawlErrs", 1>>, <<"errs", 1>>, <<"errs", 2>>>>
    /\ "crawlErrs" \in mg.returned
    /\ "errs" \in mg.open

\* C31: every failure of the analyzer that the analyzer stage has gone past
\* was sent on one of the error channels that main merges: once the stage is
\* at its next file or at the delete, the errors sent on those channels are
\* at least as many as the failed analyses of the module in hand.
C31_AnalyzerFailureSurfaced ==
    LET failed == {i \in 1..Len(an.results) : an.results[i].outcome = "error"}
    IN  an.pc \in {"select", "delete"} =>
            mg.sent["errs"] + mg.sent["crawlErrs"] >= Cardinality(failed)

\* C32: while the context is not cancelled, an answer of sq.Approx() is
\* either the sum of the three counters the service read out, on which the
\* watcher starts a run or sleeps, or the error of a failed attribute request
\* with -1, on which the watcher starts no run and is back at the top of its
\* polling loop in the running process.
C32_ApproxDepth ==
    [][(wq.pc = "approx" /\ wq'.pc # "approx" /\ ~cancelled) =>
          \/ /\ faults' = faults
             /\ wq'.num = wq'.reading["ApproximateNumberOfMessages"]
                           + wq'.reading["ApproximateNumberOfMessagesDelayed"]
                           + wq'.reading["ApproximateNumberOfMessagesNotVisible"]
             /\ wq'.pc \in {"crawl", "sleep"}
          \/ /\ faults' = faults + 1
             /\ wq'.num = 0 - 1
             /\ wq'.pc = "select"
             /\ crawl' = crawl /\ crawl.pc = "idle"
             /\ procState' = "running"]_vars

\* C32 witness: after a failed attribute request the watcher polled again,
\* got a depth of 49 summed from three counters that are not zero, and
\* started a run on it.
C32_Witness ==
    /\ faults > 0 /\ ~cancelled /\ procState = "running"
    /\ wq.pc = "crawl" /\ wq.num = Threshold - 1
    /\ \A a \in AttributeNames : wq.reading[a] > 0

\* C39: at most one caller of DoRequest is between c.mut.Lock() and the
\* return of c.client.Do, that caller holds the lock from before its sleep
\* until the call has returned, and so at most one request is in flight.
C39_RequestsSerialized ==
    LET inside == {c \in Callers : req[c] \in {"sleep", "do"}}
    IN  /\ Cardinality(inside) <= 1
        /\ \A c \in inside : mutHolder = c
        /\ inside = {} => mutHolder = 0

\* C39 witness: a request is in flight while the other caller, whose own
\* request was let through and has returned before, is outside DoRequest.
C39_Witness ==
    \E c, d \in Callers :
        /\ c # d /\ req[c] = "do" /\ req[d] = "idle"
        /\ Len(starts) = 2 /\ starts[1].caller = d /\ starts[2].caller = c

\* C36: no goroutine closes a channel that is closed or sends on a closed
\* channel: the process never panics on the watcher's error channel.
C36_ChannelSafety == procState # "panic"

\* C33: when the analyzer stage is through with a module and the context is
\* not cancelled, it has invoked the analyzer once for each (version, file)
\* pair of the module, in one order of the versions, with the URL
\* https://deno.land/x/<name>@<version><path> (https://deno.land/std@... for
\* std), and it has sent, for every URL, as many FileInfos as analyses of
\* that URL returned one.
C33_AnalyzerInvocations ==
    (an.pc = "delete" /\ ~cancelled) =>
        LET mod == msgs[an.msg]
            Url(pair) ==
                <<"https://", "deno.land", "/">>
                    \o (IF mod.Name = <<"std">> THEN << >> ELSE <<"x/">>)
                    \o mod.Name \o <<"@", pair[1], pair[2].Path>>
            Returned(u) == {i \in 1..Len(an.results) :
                               an.results[i].target = u /\ an.results[i].outcome = "info"}
            Sent(u) == {j \in 1..Len(an.sent) : an.sent[j] = u}
        IN  /\ \E order \in Orders(DOMAIN mod.Versions) :
                  LET pairs == Pairs(order, mod.Versions)
                  IN  /\ Len(an.results) = Len(pairs)
                      /\ \A i \in 1..Len(pairs) : an.results[i].target = Url(pairs[i])
            /\ \A i \in 1..Len(an.results) : an.results[i].outcome \in {"info", "error"}
            /\ \A i \in 1..Len(an.results) :
                  Cardinality(Sent(an.results[i].target)) = Cardinality(Returned(an.results[i].target))
            /\ \A j \in 1..Len(an.sent) : Returned(an.sent[j]) # {}

\* C33 witness: the stage is through with a version of std that has two
\* files; one analysis failed, the other returned and its FileInfo was sent.
C33_Witness ==
    /\ an.pc = "delete" /\ ~cancelled /\ procState = "running"
    /\ msgs[an.msg].Name = <<"std">>
    /\ Len(an.results) = 2 /\ an.results[1].outcome = "error"
    /\ an.sent = <<<<"https://", "deno.land", "/", "std", "@", VersionName(1), <<<<"cli", "ts">>>>>>>>

\* C35: the FileInfo that the writer has received from the analyzer stage is
\* never the empty one that ExecInfo returns on cancellation: it is the
\* decoded output of an analyzer run.
C35_OnlyAnalyzedInfosEmitted ==
    wr[PipelineWriter].id # 0 => wr[PipelineWriter].info \in FileInfos

\* C38: the first run of the process leaves at most one Module node per
\* name, however often a module is delivered to it, and in every run a
\* commit of insert_modules adds a Module node only for a name that the run
\* has no identity for yet.
C38_OneModuleNodePerRun ==
    /\ [](run = 1 => \A a, b \in moduleNodes : a.name = b.name => a.uid = b.uid)
    /\ [][\A n \in moduleNodes' \ moduleNodes : n.name \notin DOMAIN im.all]_vars

\* C38 witness: in the first run the analyzer stage has the module from its
\* first delivery, insert_modules has committed the module of the second
\* delivery, and the graph holds the one Module node of the first commit.
C38_Witness ==
    /\ run = 1 /\ procState = "running"
    /\ im.pc = "send" /\ deliveries[im.msg] = 2
    /\ an.msg = im.msg /\ poll.pc = "receive" /\ cm.pc # "send"
    /\ \E n \in moduleNodes : moduleNodes = {n} /\ n.uid = im.uid /\ n.name = msgs[im.msg].Name
    /\ sqs[im.msg] # "deleted"

\* C37: the module that Queue.Get has returned to IterateModules was decoded
\* without error from the body of its message, and no Module node has the
\* empty name.
C37_OnlyDecodedModules ==
    /\ cm.pc = "send" => ~Unmarshal(bodies[cm.msg]).err
    /\ \A n \in moduleNodes : n.name # EmptyString

\* C34: the modules got from the in-memory queue, followed by those in its
\* buffer, are the modules put, in the order they were put; the buffer never
\* holds more than the capacity; no put goes through while the buffer is
\* full of a queue with a buffer, none without a get on a queue without
\* one, and no get while the buffer is empty and nothing is put.
C34_ChanQueueFifo ==
    /\ cq.got \o cq.buf = cq.put
    /\ Len(cq.buf) <= cq.cap
    /\ (Len(cq.buf) = cq.cap /\ cq.cap > 0) =>
           ~ENABLED (\E n \in ModuleNames :
                        \/ ChanQueue_Put([Name |-> n, Versions |-> EmptyMap])
                        \/ ChanQueue_PutGet([Name |-> n, Versions |-> EmptyMap]))
    /\ cq.cap = 0 =>
           ~ENABLED (\E n \in ModuleNames : ChanQueue_Put([Name |-> n, Versions |-> EmptyMap]))
    /\ cq.buf = << >> => ~ENABLED ChanQueue_Get

\* C34 witness: a queue of capacity 2 is full after one module was got, and
\* the module got is the first of the three put, another than the second.
C34_Witness ==
    /\ cq.cap = 2 /\ Len(cq.buf) = 2 /\ Len(cq.put) = 3 /\ Len(cq.got) = 1
    /\ cq.got = <<cq.put[1]>>
    /\ cq.put[1] # cq.put[2]
====
